---- MODULE Spec2Model ----
(***************************************************************************)
(* Model of the skeinrs workspace: the dual-cursor digit stream            *)
(* (dual_spigot), the real-time MIDI player thread and the application     *)
(* orchestrator (leap_spigot).                                             *)
(*                                                                         *)
(* The workspace builds several programs; a behaviour of this model is a   *)
(* run of one of them, selected by prog in the initial state:              *)
(*   "dual_spigot"  a client of the DualStream API (the interactive menu   *)
(*                  of dual_spigot/src/main.rs and the calls of demo.rs),  *)
(*   "player"       a client of the Player handle (play/stop/quit/...)     *)
(*                  together with the player thread,                       *)
(*   "leap_spigot"  a client of the AppState (handle_gesture, do_snip,     *)
(*                  tick) together with the player thread it spawns,       *)
(*   "run"          the full application of app.rs run(): the window's key *)
(*                  polling, the gesture source thread and the frame loop  *)
(*                  that drains the gestures, ticks and renders,           *)
(*   "tray"         a client of a SnippetTray (ribbon.rs),                 *)
(*   "snipper"      a client of the AppState that snips more often than    *)
(*                  the tray has room,                                     *)
(*   "midi"         a client of the MidiComposer builder and the MIDI      *)
(*                  serialisation of spigot_midi/src/lib.rs,               *)
(*   "calc"         calls of the numeric helpers ticks_to_ms (player.rs)   *)
(*                  and write_vlq (spigot_midi), as their unit tests make, *)
(*   "ribbon"       a client of one RibbonState (ribbon.rs), as its unit   *)
(*                  tests are.                                             *)
(*                                                                         *)
(* The sources of the dual_spigot and spigot_stream libraries (DualStream, *)
(* its cursors, the digit sources) are not in the tree; they are modelled  *)
(* from their description.  Left out of the state: patch colours, the      *)
(* scroll physics of the ribbons, the slide-in of tray entries and the     *)
(* status line, none of which is read by anything modelled here.           *)
(***************************************************************************)
EXTENDS Integers, Sequences, FiniteSets, TLC

VARIABLES
    prog,          \* which program of the workspace is running
    cfg,           \* the configuration the run was started with (AppConfig)
    \* ---- dual_spigot client (dual_spigot/src/main.rs, demo.rs) ----
    ds,            \* the client's DualStream
    ret,           \* what the last DualStream call returned / printed
    \* ---- Player handle and player thread (leap_spigot/src/player.rs) ----
    cmd_ch,        \* control channel: Seq of PlayerCommand (cmd_tx -> cmd_rx)
    note_ch,       \* note-event channel: Seq of NoteEvent (note_tx -> note_rx)
    ppc,           \* position of the player thread in player_thread
    playing,       \* player_thread local: playing
    p_instrument,  \* player_thread local: instrument
    p_tempo,       \* player_thread local: tempo_bpm
    p_stream,      \* player_thread local: its private DualStream
    p_note,        \* player_thread locals of the note in flight (pitch, millis)
    midi_out,      \* every message the MIDI sink has received, in order
    note_log,      \* every NoteEvent the player has sent, in order
    sent_log,      \* every PlayerCommand sent on the control channel, in order
    note_at,       \* for every note of note_log: how many commands had been
                   \* sent and how many applied when its note-on was issued
    \* ---- AppState (leap_spigot/src/app.rs) ----
    dual,          \* AppState.dual, the live DualStream
    left_ribbon,   \* AppState.left_ribbon
    right_ribbon,  \* AppState.right_ribbon
    play_state,    \* AppState.play_state
    stitch,        \* AppState.stitch
    tray,          \* AppState.tray.entries
    tray_log,      \* every entry deposited into the tray, in order
    scissor_anim,  \* AppState.scissor_anim
    note_highlight, \* AppState.note_highlight
    \* ---- run(): window, gesture source, frame loop (app.rs, gesture.rs) ----
    sim_ch,        \* SimInput channel (Visualizer.sim_tx -> SimGestureSource.rx)
    gest_ch,       \* GestureEvent channel (source's tx -> run's gesture_rx)
    gsrc,          \* position of the gesture source thread: "run" or "done"
    rpc,           \* position of the main thread: in the frame loop of run(),
                   \* or "exit" once the owner of the Player handle has
                   \* returned and dropped it (cmd_tx and note_rx with it)
    sim_log,       \* every SimInput the visualizer has sent, in order
    gsent,         \* every GestureEvent the source has sent, in order
    handled,       \* every event handle_gesture was called with by run()
    \* ---- spigot_midi client (spigot_midi/src/lib.rs) ----
    composer,      \* the MidiComposer being built
    tracks,        \* the MidiTracks composed so far
    out            \* the last call of a function and what it returned

vars == << prog, cfg, ds, ret, cmd_ch, note_ch, ppc, playing, p_instrument,
           p_tempo, p_stream, p_note, midi_out, note_log, sent_log, note_at,
           dual, left_ribbon, right_ribbon, play_state, stitch, tray,
           tray_log, scissor_anim, note_highlight, sim_ch, gest_ch, gsrc, rpc,
           sim_log, gsent, handled, composer, tracks, out >>

dsVars     == << ds, ret >>
playerVars == << cmd_ch, note_ch, ppc, playing, p_instrument, p_tempo,
                 p_stream, p_note, midi_out, note_log, sent_log, note_at >>
threadVars == << note_ch, ppc, playing, p_instrument, p_tempo,
                 p_stream, p_note, midi_out, note_log, note_at >>
appVars    == << dual, left_ribbon, right_ribbon, play_state, stitch,
                 tray, tray_log, scissor_anim, note_highlight >>
runVars    == << sim_ch, gest_ch, gsrc, rpc, sim_log, gsent, handled >>
midiVars   == << composer, tracks, out >>

(***************************************************************************)
(* Bounds of the model.                                                    *)
(***************************************************************************)
MaxPos   == 3   \* positions the DualStream client's cursors advance to
MaxCount == 2   \* largest n passed to drop / take / zip_take / pulls
MaxNotes == 2   \* notes the player emits in a run
MaxCmds  == 4   \* commands a Player-handle client sends in a run
MaxClaps == 3   \* Play/Stop commands the AppState sends in a run
MaxPull  == 3   \* positions the live cursors of the AppState advance to
MaxSnips == 1   \* snips an AppState client performs in a run
MaxDeposits == 9 \* deposits into one tray in a run
MaxKeys  == 3   \* key presses the window reports in a run of the application
ShortLen == 1   \* digits a terminating digit source yields before it ends
MaxPushes == 4  \* pushes a RibbonState client makes into one ribbon

\* Option values: None, Some(x)
None == << >>
Some(x) == << x >>

Min(a, b) == IF a < b THEN a ELSE b
Max(a, b) == IF a > b THEN a ELSE b

(***************************************************************************)
(* Digit Source (external collaborator, spec section 6): deterministic,    *)
(* sequential digits of a constant in a base, index 0 first.               *)
(***************************************************************************)
PiBase10 == << 3,1,4,1,5,9,2,6,5,3,5,8,9,7,9,3,2,3,8,4,6,2,6,4,3,3,8,3,2,7,9,5 >>
EBase10  == << 2,7,1,8,2,8,1,8,2,8,4,5,9,0,4,5,2,3,5,3,6,0,2,8,7,4,7,1,3,5,2,6 >>
PiBase16 == << 3,2,4,3,15,6,10,8,8,8,5,10,3,0,8,13,3,1,3,1,9,8,10,2,14,0,3,7,0,7,3,4 >>

SpigotConfig(constant, base) == [constant |-> constant, base |-> base]

Pi10 == SpigotConfig("Pi", 10)
E10  == SpigotConfig("E", 10)
Pi16 == SpigotConfig("Pi", 16)

Configs == { Pi10, E10, Pi16 }

\* a source that terminates (none of the supported constants does): it
\* yields the first ShortLen digits of pi and then nothing
Short10 == SpigotConfig("Short", 10)

DigitTable(config) ==
    IF config = Pi10 THEN PiBase10
    ELSE IF config = E10 THEN EBase10
    ELSE IF config = Short10 THEN SubSeq(PiBase10, 1, ShortLen)
    ELSE PiBase16

\* the digit at absolute index i of the sequence a configuration defines
Digit(config, i) == DigitTable(config)[i + 1]

(***************************************************************************)
(* Cursor: one digit source plus a position counter.                       *)
(***************************************************************************)
NewCursor(config) == [config |-> config, pos |-> 0]

\* next() returns None: the source of the cursor has terminated
Exhausted(c) == c.config = Short10 /\ c.pos >= ShortLen

\* next(): one digit, position + 1
CursorNext(c) ==
    [digit |-> Digit(c.config, c.pos), cur |-> [c EXCEPT !.pos = c.pos + 1]]

RECURSIVE CursorTake(_, _)
\* take(n): the next n digits in order, position + n
CursorTake(c, n) ==
    IF n = 0 THEN [digits |-> << >>, cur |-> c]
    ELSE LET s == CursorNext(c)
             r == CursorTake(s.cur, n - 1)
         IN  [digits |-> << s.digit >> \o r.digits, cur |-> r.cur]

\* drop(n): advance by n without retaining digits
CursorDrop(c, n) == CursorTake(c, n).cur

(***************************************************************************)
(* Dual Stream: two cursors and the snippet store.                         *)
(***************************************************************************)
from_configs(lcfg, rcfg) ==
    [left |-> NewCursor(lcfg), right |-> NewCursor(rcfg), snippets |-> << >>]

left_pos(d)  == d.left.pos
right_pos(d) == d.right.pos

\* left().next() / right().next(): the side's next digit, only that side moves
LeftNext(d) ==
    LET s == CursorNext(d.left)
    IN  [digit |-> s.digit, ds |-> [d EXCEPT !.left = s.cur]]

RightNext(d) ==
    LET s == CursorNext(d.right)
    IN  [digit |-> s.digit, ds |-> [d EXCEPT !.right = s.cur]]

\* left().drop(n) / right().drop(n)
LeftDrop(d, n)  == [d EXCEPT !.left = CursorDrop(d.left, n)]
RightDrop(d, n) == [d EXCEPT !.right = CursorDrop(d.right, n)]

\* left().take(n) / right().take(n)
LeftTake(d, n) ==
    LET t == CursorTake(d.left, n)
    IN  [digits |-> t.digits, ds |-> [d EXCEPT !.left = t.cur]]

RightTake(d, n) ==
    LET t == CursorTake(d.right, n)
    IN  [digits |-> t.digits, ds |-> [d EXCEPT !.right = t.cur]]

\* pairs the i-th elements of two equally long sequences
ZipSeq(ls, rs) == [i \in 1..Min(Len(ls), Len(rs)) |-> << ls[i], rs[i] >>]

\* zip_next() returns None: a side has no digit left
ZipExhausted(d) == Exhausted(d.left) \/ Exhausted(d.right)

\* zip_next(): one pair, both sides advance by one
zip_next(d) ==
    LET l == CursorNext(d.left)
        r == CursorNext(d.right)
    IN  [pair |-> << l.digit, r.digit >>,
         ds   |-> [d EXCEPT !.left = l.cur, !.right = r.cur]]

\* (variant: the batch loop stops one pair short)
zip_take_short(d, n) ==
    LET m == IF n = 0 THEN 0 ELSE n - 1
        l == CursorTake(d.left, m)
        r == CursorTake(d.right, m)
    IN  [pairs |-> ZipSeq(l.digits, r.digits),
         ds    |-> [d EXCEPT !.left = l.cur, !.right = r.cur]]

\* zip_take(n): batch pair collection, both sides advance by n
zip_take(d, n) ==
    LET l == CursorTake(d.left, n)
        r == CursorTake(d.right, n)
    IN  [pairs |-> ZipSeq(l.digits, r.digits),
         ds    |-> [d EXCEPT !.left = l.cur, !.right = r.cur]]

\* the combine closure of demo.rs: running digit sums of the two sides
SumCombine(acc, pair) == << acc[1] + pair[1], acc[2] + pair[2] >>

RECURSIVE zip_fold_n(_, _, _)
\* zip_fold_n(n, seed, combine): streaming left fold over the next n pairs
zip_fold_n(d, n, acc) ==
    IF n = 0 THEN [acc |-> acc, ds |-> d]
    ELSE LET s == zip_next(d)
         IN  zip_fold_n(s.ds, n - 1, SumCombine(acc, s.pair))

\* (variant: only the configurations are exchanged, the positions stay)
twist_configs(d) ==
    [d EXCEPT !.left  = [config |-> d.right.config, pos |-> d.left.pos],
              !.right = [config |-> d.left.config, pos |-> d.right.pos]]

\* twist(): exchange the Left and Right cursors as whole units
twist(d) == [d EXCEPT !.left = d.right, !.right = d.left]

\* index of the entry called name in a snippet store, 0 if there is none
SnippetIndex(store, name) ==
    IF \E i \in 1..Len(store) : store[i].name = name
    THEN CHOOSE i \in 1..Len(store) : store[i].name = name
    ELSE 0

\* deposit under a unique key: an existing name is overwritten in place
StoreInsert(store, entry) ==
    LET i == SnippetIndex(store, entry.name)
    IN  IF i = 0 THEN Append(store, entry)
        ELSE [store EXCEPT ![i] = entry]

\* the pairs at absolute indices [from, to) of the two sides' sequences,
\* produced by fresh cursors: drop(from), take(to - from), zip
SnipPairs(lcfg, rcfg, from, to) ==
    LET l == CursorTake(CursorDrop(NewCursor(lcfg), from), to - from)
        r == CursorTake(CursorDrop(NewCursor(rcfg), from), to - from)
    IN  ZipSeq(l.digits, r.digits)

\* (variant: the range is read relative to the live cursors)
snip_live(d, name, from, to) ==
    IF from > to THEN d
    ELSE [d EXCEPT !.snippets =
             StoreInsert(d.snippets,
                 [name  |-> name,
                  pairs |-> ZipSeq(
                      CursorTake(CursorDrop(d.left, from), to - from).digits,
                      CursorTake(CursorDrop(d.right, from), to - from).digits),
                  from  |-> from,
                  to    |-> to])]

\* snip(name, from, to): requires from <= to; never touches the live cursors
snip(d, name, from, to) ==
    IF from > to THEN d
    ELSE [d EXCEPT !.snippets =
             StoreInsert(d.snippets,
                 [name  |-> name,
                  pairs |-> SnipPairs(d.left.config, d.right.config, from, to),
                  from  |-> from,
                  to    |-> to])]

\* get_snippet(name): the stored pairs, or None
get_snippet(d, name) ==
    LET i == SnippetIndex(d.snippets, name)
    IN  IF i = 0 THEN None ELSE Some(d.snippets[i].pairs)

\* snippet_keys(): the stored names in insertion order
snippet_keys(d) == [i \in 1..Len(d.snippets) |-> d.snippets[i].name]

(***************************************************************************)
(* Inputs.                                                                 *)
(***************************************************************************)
\* configuration pairs (left, right) a run may be started with
ConfigPairs == { << Pi10, E10 >>, << Pi16, E10 >>, << Pi10, Pi10 >> }

\* snippet names a user may type
Names == { "a", "b" }

Counts == 0..MaxCount

\* (from, to) ranges a DualStream client asks to snip: overlapping ranges,
\* an empty range and a malformed one
SnipRanges == { << 0, 2 >>, << 1, 3 >>, << 1, 1 >>, << 2, 1 >> }

\* snippet names passed to do_snip / Scissors
AppNames == { "a" }

\* keys a user of the window presses
KeySet == { "Q", "T", "Space", "Escape", "S", "A", "D" }

(***************************************************************************)
(* Program "dual_spigot": a client of the DualStream API.  Each action is  *)
(* one command of the menu loop of main.rs (or one call of demo.rs); ret   *)
(* records what the call returned.                                         *)
(***************************************************************************)
Ret(op, arg, val) == [op |-> op, arg |-> arg, val |-> val]

\* "1": ds.left().drop(n)
DsDropLeft(n) ==
    /\ prog = "dual_spigot"
    /\ left_pos(ds) + n <= MaxPos
    /\ ds' = LeftDrop(ds, n)
    /\ ret' = Ret("drop", 0, None)
    /\ UNCHANGED << prog, cfg, midiVars, runVars, playerVars, appVars >>

\* "2": ds.right().drop(n)
DsDropRight(n) ==
    /\ prog = "dual_spigot"
    /\ right_pos(ds) + n <= MaxPos
    /\ ds' = RightDrop(ds, n)
    /\ ret' = Ret("drop", 0, None)
    /\ UNCHANGED << prog, cfg, midiVars, runVars, playerVars, appVars >>

\* "3": ds.left().take(n)
DsTakeLeft(n) ==
    /\ prog = "dual_spigot"
    /\ left_pos(ds) + n <= MaxPos
    /\ ds' = LeftTake(ds, n).ds
    /\ ret' = Ret("take", n, LeftTake(ds, n).digits)
    /\ UNCHANGED << prog, cfg, midiVars, runVars, playerVars, appVars >>

\* "4": ds.right().take(n)
DsTakeRight(n) ==
    /\ prog = "dual_spigot"
    /\ right_pos(ds) + n <= MaxPos
    /\ ds' = RightTake(ds, n).ds
    /\ ret' = Ret("take", n, RightTake(ds, n).digits)
    /\ UNCHANGED << prog, cfg, midiVars, runVars, playerVars, appVars >>

\* "5": ds.zip_take(n)
DsZipTake(n) ==
    /\ prog = "dual_spigot"
    /\ left_pos(ds) + n <= MaxPos
    /\ right_pos(ds) + n <= MaxPos
    /\ ds' = zip_take(ds, n).ds
    /\ ret' = Ret("zip_take", n, zip_take(ds, n).pairs)
    /\ UNCHANGED << prog, cfg, midiVars, runVars, playerVars, appVars >>

\* demo.rs: ds.zip_next()
DsZipNext ==
    /\ prog = "dual_spigot"
    /\ left_pos(ds) + 1 <= MaxPos
    /\ right_pos(ds) + 1 <= MaxPos
    /\ ds' = zip_next(ds).ds
    /\ ret' = Ret("zip_next", 1, << zip_next(ds).pair >>)
    /\ UNCHANGED << prog, cfg, midiVars, runVars, playerVars, appVars >>

\* demo.rs: ds.zip_fold_n(n, (0, 0), sum)
DsZipFoldN(n) ==
    /\ prog = "dual_spigot"
    /\ left_pos(ds) + n <= MaxPos
    /\ right_pos(ds) + n <= MaxPos
    /\ ds' = zip_fold_n(ds, n, << 0, 0 >>).ds
    /\ ret' = Ret("zip_fold_n", n, << zip_fold_n(ds, n, << 0, 0 >>).acc >>)
    /\ UNCHANGED << prog, cfg, midiVars, runVars, playerVars, appVars >>

\* "6": ds.twist()
DsTwist ==
    /\ prog = "dual_spigot"
    /\ ds' = twist(ds)
    /\ ret' = Ret("twist", 0, None)
    /\ UNCHANGED << prog, cfg, midiVars, runVars, playerVars, appVars >>

\* (variant: the menu passes every range on and an entry with whatever was
\* collected, here nothing, is stored)
DsSnip_unchecked(key, from, to) ==
    /\ prog = "dual_spigot"
    /\ ds' = IF from > to
             THEN [ds EXCEPT !.snippets =
                      StoreInsert(ds.snippets,
                                  [name |-> key, pairs |-> << >>,
                                   from |-> from, to |-> to])]
             ELSE snip(ds, key, from, to)
    /\ ret' = Ret("snip", 0, None)
    /\ UNCHANGED << prog, cfg, midiVars, runVars, playerVars, appVars >>

\* "7": snip; the menu rejects from > to before calling ds.snip
DsSnip(key, from, to) ==
    /\ prog = "dual_spigot"
    /\ IF from > to
       THEN /\ ds' = ds
            /\ ret' = Ret("snip_rejected", 0, None)
       ELSE /\ ds' = snip(ds, key, from, to)
            /\ ret' = Ret("snip", 0, None)
    /\ UNCHANGED << prog, cfg, midiVars, runVars, playerVars, appVars >>

(***************************************************************************)
(* Pitch and duration mappings (spigot_midi/src/lib.rs).                   *)
(***************************************************************************)
\* Scale::major()
MajorIntervals == << 0, 2, 4, 5, 7, 9, 11 >>

\* PitchMap::major(root)
PitchMapMajor(root) == [root |-> root, intervals |-> MajorIntervals]

\* Scale::chromatic()
ChromaticIntervals == << 0, 1, 2, 3, 4, 5, 6, 7, 8, 9, 10, 11 >>

\* PitchMap::chromatic(root)
PitchMapChromatic(root) == [root |-> root, intervals |-> ChromaticIntervals]

\* PitchMap::note_for
note_for(pm, d) ==
    LET n        == Len(pm.intervals)
        octave   == d \div n
        degree   == d % n
        semitone == pm.intervals[degree + 1]
        note     == pm.root + octave * 12 + semitone
    IN  Min(note, 127)

\* DurationMap::musical(ticks_per_quarter)
DurationMapMusical(q) ==
    << q \div 8, q \div 4, (q * 3) \div 8, q \div 2, (q * 3) \div 4,
       q, (q * 3) \div 2, q * 2, q * 3, q * 4 >>

\* DurationMap::ticks_for
ticks_for(table, d) ==
    IF Len(table) = 0 THEN 120 ELSE table[(d % Len(table)) + 1]

\* ticks_to_ms without the floor of 50 ms
ticks_to_ms_unfloored(ticks, tpq, bpm) ==
    LET ms_per_beat == 60000 \div Max(bpm, 1)
    IN  (ticks * ms_per_beat) \div Max(tpq, 1)

\* player.rs ticks_to_ms
ticks_to_ms(ticks, tpq, bpm) ==
    LET ms_per_beat == 60000 \div Max(bpm, 1)
    IN  Max((ticks * ms_per_beat) \div Max(tpq, 1), 50)

\* player_thread: const TPQ
TPQ == 480

(***************************************************************************)
(* AppConfig::default() values used by the runs of the model.              *)
(***************************************************************************)
DefaultRoot       == 60
DefaultInstrument == 0
DefaultTempo      == 120
DefaultVelocity   == 100
DefaultChannel    == 0

\* ribbon_capacity of AppConfig::default(): WIN_W / 48 + 2 with WIN_W = 1200
DefaultRibbonCapacity == 27

\* a small ribbon_capacity (a public field of AppConfig) that an AppState
\* client configures, so that the window slides past its first patches
\* within a few pulls
Capacity == 2

AppConfig(lcfg, rcfg) ==
    [left_config     |-> lcfg,
     right_config    |-> rcfg,
     pitch_map       |-> PitchMapMajor(DefaultRoot),
     duration_map    |-> DurationMapMusical(TPQ),
     instrument      |-> DefaultInstrument,
     tempo_bpm       |-> DefaultTempo,
     velocity        |-> DefaultVelocity,
     channel         |-> DefaultChannel,
     ribbon_capacity |-> DefaultRibbonCapacity]

\* AppConfig { ribbon_capacity: cap, ..AppConfig(lcfg, rcfg) }
AppConfigWith(lcfg, rcfg, cap) ==
    [AppConfig(lcfg, rcfg) EXCEPT !.ribbon_capacity = cap]

\* the windows of the AppState clients: the small one and the default
RibbonWindows == { Capacity, DefaultRibbonCapacity }

(***************************************************************************)
(* Player: commands, MIDI messages, note events.                           *)
(***************************************************************************)
Cmd(type, arg) == [type |-> type, arg |-> arg]
Play  == Cmd("Play", 0)
Stop  == Cmd("Stop", 0)
Quit  == Cmd("Quit", 0)
SetInstrument(p) == Cmd("SetInstrument", p)
SetTempo(b)      == Cmd("SetTempo", b)

\* MidiOut::program_change / note_on / note_off as received by the sink
program_change(ch, program) == [msg |-> "program_change", ch |-> ch, a |-> program, b |-> 0]
note_on(ch, note, vel)      == [msg |-> "note_on",  ch |-> ch, a |-> note, b |-> vel]
note_off(ch, note)          == [msg |-> "note_off", ch |-> ch, a |-> note, b |-> 0]

NoteEvent(pitch, duration, velocity, lpos, rpos) ==
    [pitch |-> pitch, duration |-> duration, velocity |-> velocity,
     left_pos |-> lpos, right_pos |-> rpos]

\* values a Player-handle client passes to set_instrument / set_tempo
Programs == { 11 }
Tempos   == { 60 }

ClientCmds == { Play, Stop, Quit }
                \cup { SetInstrument(p) : p \in Programs }
                \cup { SetTempo(b) : b \in Tempos }

\* Sender::send on the control channel; once the thread has returned the
\* receiver is gone and `let _ = send(..)` drops the command
SendCmd(c) ==
    /\ cmd_ch' = IF ppc = "done" THEN cmd_ch ELSE Append(cmd_ch, c)
    /\ sent_log' = Append(sent_log, c)

\* Player::play / stop / quit / set_instrument / set_tempo called by a client
ClientSend(c) ==
    /\ prog = "player"
    /\ rpc # "exit"
    /\ Len(sent_log) < MaxCmds
    /\ SendCmd(c)
    /\ UNCHANGED << prog, cfg, midiVars, runVars, dsVars, threadVars, appVars >>

\* Player::drain_notes called by a client
ClientDrainNotes ==
    /\ prog = "player"
    /\ rpc # "exit"
    /\ note_ch # << >>
    /\ note_ch' = << >>
    /\ UNCHANGED << prog, cfg, midiVars, runVars, dsVars, cmd_ch, sent_log, ppc, playing,
                    p_instrument, p_tempo, p_stream, p_note, midi_out,
                    note_log, note_at, appVars >>

\* the client lets go of its Player: the struct has no Drop of its own, so
\* cmd_tx and note_rx are dropped and the JoinHandle is detached; nothing is
\* sent, and what cmd_tx had sent stays in the channel for the thread
PlayerDrop ==
    /\ prog = "player"
    /\ rpc # "exit"
    /\ rpc' = "exit"
    /\ UNCHANGED << prog, cfg, midiVars, dsVars, playerVars, appVars, sim_ch,
                    gest_ch, gsrc, sim_log, gsent, handled >>

PlayerRuns == prog \in { "player", "leap_spigot", "run", "snipper" }

\* (variant: Play sets the flag without selecting the instrument again)
PlayerRecvAt_silent_play(positions) ==
    /\ PlayerRuns
    /\ ppc \in positions
    /\ cmd_ch # << >>
    /\ LET c == Head(cmd_ch)
       IN  /\ cmd_ch' = IF c.type = "Quit" THEN << >> ELSE Tail(cmd_ch)
           /\ playing' = IF c.type = "Play" THEN TRUE
                         ELSE IF c.type = "Stop" THEN FALSE
                         ELSE playing
           /\ p_instrument' = IF c.type = "SetInstrument" THEN c.arg
                              ELSE p_instrument
           /\ p_tempo' = IF c.type = "SetTempo" THEN c.arg ELSE p_tempo
           /\ midi_out' =
                 IF c.type = "SetInstrument"
                 THEN Append(midi_out,
                             program_change(cfg.channel, p_instrument'))
                 ELSE midi_out
           /\ ppc' = IF c.type = "Quit" THEN "done" ELSE "drain"
    /\ UNCHANGED << prog, cfg, midiVars, runVars, dsVars, note_ch, p_stream, p_note, note_log,
                    sent_log, note_at, appVars >>

\* (variant: try_recv hands out the newest pending command first)
PlayerRecvAt_newest(positions) ==
    /\ PlayerRuns
    /\ ppc \in positions
    /\ cmd_ch # << >>
    /\ LET c == cmd_ch[Len(cmd_ch)]
       IN  /\ cmd_ch' = IF c.type = "Quit" THEN << >>
                        ELSE SubSeq(cmd_ch, 1, Len(cmd_ch) - 1)
           /\ playing' = IF c.type = "Play" THEN TRUE
                         ELSE IF c.type = "Stop" THEN FALSE
                         ELSE playing
           /\ p_instrument' = IF c.type = "SetInstrument" THEN c.arg
                              ELSE p_instrument
           /\ p_tempo' = IF c.type = "SetTempo" THEN c.arg ELSE p_tempo
           /\ midi_out' =
                 IF c.type \in { "Play", "SetInstrument" }
                 THEN Append(midi_out,
                             program_change(cfg.channel, p_instrument'))
                 ELSE midi_out
           /\ ppc' = IF c.type = "Quit" THEN "done" ELSE "drain"
    /\ UNCHANGED << prog, cfg, midiVars, runVars, dsVars, note_ch, p_stream, p_note,
                    note_log, sent_log, note_at, appVars >>

\* player_thread: cmd_rx.try_recv() returned Ok(command), with the thread at
\* one of the given positions
PlayerRecvAt(positions) ==
    /\ PlayerRuns
    /\ ppc \in positions
    /\ cmd_ch # << >>
    /\ LET c == Head(cmd_ch)
       IN  /\ cmd_ch' = IF c.type = "Quit" THEN << >> ELSE Tail(cmd_ch)
           /\ playing' = IF c.type = "Play" THEN TRUE
                         ELSE IF c.type = "Stop" THEN FALSE
                         ELSE playing
           /\ p_instrument' = IF c.type = "SetInstrument" THEN c.arg
                              ELSE p_instrument
           /\ p_tempo' = IF c.type = "SetTempo" THEN c.arg ELSE p_tempo
           /\ midi_out' =
                 IF c.type \in { "Play", "SetInstrument" }
                 THEN Append(midi_out,
                             program_change(cfg.channel, p_instrument'))
                 ELSE midi_out
           /\ ppc' = IF c.type = "Quit" THEN "done" ELSE "drain"
    /\ UNCHANGED << prog, cfg, midiVars, runVars, dsVars, note_ch, p_stream, p_note, note_log,
                    sent_log, note_at, appVars >>

\* player_thread before its loop: open_midi_output() and the program change
\* of the configured instrument.  Player::spawn returns as soon as the
\* thread is created, so the caller's steps can come before this one.
PlayerStart ==
    /\ PlayerRuns
    /\ ppc = "start"
    /\ midi_out' = Append(midi_out, program_change(cfg.channel, p_instrument))
    /\ ppc' = "drain"
    /\ UNCHANGED << prog, cfg, midiVars, runVars, dsVars, cmd_ch, note_ch, playing, p_instrument,
                    p_tempo, p_stream, p_note, note_log, sent_log, note_at,
                    appVars >>

\* (variant: commands are also read while a note is sounding)
PlayerRecv_preempt == PlayerRecvAt({ "drain", "note" })

\* player_thread, drain loop: commands are read only at the top of an
\* iteration
PlayerRecv == PlayerRecvAt({ "drain" })

\* (variant: the iteration goes on to the next note whatever the flag says)
PlayerDrainEmpty_always ==
    /\ PlayerRuns
    /\ ppc = "drain"
    /\ cmd_ch = << >>
    /\ ppc' = "gen"
    /\ UNCHANGED << prog, cfg, midiVars, runVars, dsVars, cmd_ch, note_ch, playing, p_instrument,
                    p_tempo, p_stream, p_note, midi_out, note_log, sent_log,
                    note_at, appVars >>

\* player_thread, drain loop: try_recv() returned Err(_) => break, followed
\* by the test of the playing flag (a run plays MaxNotes notes: after the
\* last one the thread stays in the drain loop, where it still takes
\* commands)
PlayerDrainEmpty ==
    /\ PlayerRuns
    /\ ppc = "drain"
    /\ cmd_ch = << >>
    /\ playing => Len(note_log) < MaxNotes
    /\ ppc' = IF playing THEN "gen" ELSE "sleep"
    /\ UNCHANGED << prog, cfg, midiVars, runVars, dsVars, cmd_ch, note_ch, playing, p_instrument,
                    p_tempo, p_stream, p_note, midi_out, note_log, sent_log,
                    note_at, appVars >>

\* (variant: an idle thread gives up and returns)
PlayerWake_exits ==
    /\ PlayerRuns
    /\ ppc = "sleep"
    /\ ppc' = "done"
    /\ UNCHANGED << prog, cfg, midiVars, runVars, dsVars, cmd_ch, note_ch, playing,
                    p_instrument, p_tempo, p_stream, p_note, midi_out,
                    note_log, sent_log, note_at, appVars >>

\* player_thread: the 10 ms idle sleep is over, continue
PlayerWake ==
    /\ PlayerRuns
    /\ ppc = "sleep"
    /\ ppc' = "drain"
    /\ UNCHANGED << prog, cfg, midiVars, runVars, dsVars, cmd_ch, note_ch, playing, p_instrument,
                    p_tempo, p_stream, p_note, midi_out, note_log, sent_log,
                    note_at, appVars >>

\* player_thread: map the pair s.pair pulled from a stream, send the
\* NoteEvent (let _ = note_tx.send(..): the event is discarded when the
\* receiver has been dropped), note_on
PlayerNoteOnWith(s) ==
    /\ PlayerRuns
    /\ ppc = "gen"
    /\ Len(note_log) < MaxNotes
    /\ LET left   == s.pair[1]
           right  == s.pair[2]
           pitch  == note_for(cfg.pitch_map, right)
           ticks  == ticks_for(cfg.duration_map, left)
           millis == ticks_to_ms(ticks, TPQ, p_tempo)
           ev     == NoteEvent(pitch, ticks, cfg.velocity,
                               left_pos(s.ds), right_pos(s.ds))
       IN  /\ note_ch' = IF rpc = "exit" THEN note_ch
                          ELSE Append(note_ch, ev)
           /\ note_log' = Append(note_log, ev)
           /\ note_at' = Append(note_at,
                                [sent    |-> Len(sent_log),
                                 applied |-> Len(sent_log) - Len(cmd_ch)])
           /\ midi_out' = Append(midi_out,
                                 note_on(cfg.channel, pitch, cfg.velocity))
           /\ p_note' = Some([pitch |-> pitch, millis |-> millis])
           /\ ppc' = "note"
    /\ UNCHANGED << prog, cfg, midiVars, runVars, dsVars, cmd_ch, playing, p_instrument, p_tempo,
                    sent_log, left_ribbon, right_ribbon, play_state, stitch,
                    tray, tray_log, scissor_anim, note_highlight >>

\* (variant: the thread pulls its pairs from the orchestrator's live stream)
PlayerNoteOn_shared ==
    /\ PlayerNoteOnWith(zip_next(dual))
    /\ dual' = zip_next(dual).ds
    /\ UNCHANGED p_stream

\* (variant: the thread returns when its stream yields nothing)
PlayerExhausted_exits ==
    /\ PlayerRuns
    /\ ppc = "gen"
    /\ ZipExhausted(p_stream)
    /\ ppc' = "done"
    /\ UNCHANGED << prog, cfg, midiVars, runVars, dsVars, cmd_ch, note_ch, playing,
                    p_instrument, p_tempo, p_stream, p_note, midi_out,
                    note_log, sent_log, note_at, appVars >>

\* player_thread: zip_next on the private stream returned None =>
\* playing = false; continue
PlayerExhausted ==
    /\ PlayerRuns
    /\ ppc = "gen"
    /\ ZipExhausted(p_stream)
    /\ playing' = FALSE
    /\ ppc' = "drain"
    /\ UNCHANGED << prog, cfg, midiVars, runVars, dsVars, cmd_ch, note_ch, p_instrument,
                    p_tempo, p_stream, p_note, midi_out, note_log, sent_log,
                    note_at, appVars >>

\* (variant: the pair is read without keeping the advanced stream)
PlayerNoteOn_repeat ==
    /\ ~ZipExhausted(p_stream)
    /\ PlayerNoteOnWith(zip_next(p_stream))
    /\ UNCHANGED << p_stream, dual >>

\* player_thread: zip_next on the private stream, then the note
PlayerNoteOn ==
    /\ ~ZipExhausted(p_stream)
    /\ PlayerNoteOnWith(zip_next(p_stream))
    /\ p_stream' = zip_next(p_stream).ds
    /\ UNCHANGED dual

\* player_thread: the note's sleep is over, note_off
PlayerNoteOff ==
    /\ PlayerRuns
    /\ ppc = "note"
    /\ midi_out' = Append(midi_out, note_off(cfg.channel, p_note[1].pitch))
    /\ ppc' = "gap"
    /\ UNCHANGED << prog, cfg, midiVars, runVars, dsVars, cmd_ch, note_ch, playing, p_instrument,
                    p_tempo, p_stream, p_note, note_log, sent_log, note_at,
                    appVars >>

\* player_thread: the inter-note gap sleep is over, next iteration
PlayerGapEnd ==
    /\ PlayerRuns
    /\ ppc = "gap"
    /\ p_note' = None
    /\ ppc' = "drain"
    /\ UNCHANGED << prog, cfg, midiVars, runVars, dsVars, cmd_ch, note_ch, playing, p_instrument,
                    p_tempo, p_stream, midi_out, note_log, sent_log, note_at,
                    appVars >>

(***************************************************************************)
(* f32 arithmetic of the animation counters.  A progress value is held as  *)
(* an integer number of units of 2^-28; every f32 in [2^-5, 2) is a whole  *)
(* number of such units.  An addition is exact and then rounded to the     *)
(* 24-bit significand, ties to even.                                       *)
(***************************************************************************)
RECURSIVE Pow2(_)
Pow2(k) == IF k = 0 THEN 1 ELSE 2 * Pow2(k - 1)

RECURSIVE BitLen(_)
\* number of binary digits of n
BitLen(n) == IF n = 0 THEN 0 ELSE 1 + BitLen(n \div 2)

F32Round(n) ==
    IF BitLen(n) <= 24 THEN n
    ELSE LET q  == Pow2(BitLen(n) - 24)
             r  == n % q
             lo == n - r
         IN  IF 2 * r > q \/ (2 * r = q /\ (lo \div q) % 2 = 1)
             THEN lo + q
             ELSE lo

F32Add(a, b) == F32Round(a + b)

\* 1.0_f32
F32One == Pow2(28)

\* 0.05_f32 (StitchPhase::tick) and 0.04_f32 (ScissorAnimation::tick)
StitchInc  == 13421773
ScissorInc == 10737418

(***************************************************************************)
(* Ribbon state (leap_spigot/src/ribbon.rs).                               *)
(***************************************************************************)
Patch(digit, position) == [digit |-> digit, position |-> position]

\* format!("{} base {}", constant.name(), base)
Label(config) == << config.constant, " base ", config.base >>

\* RibbonState::new
RibbonNew(capacity, base, label) ==
    [patches |-> << >>, capacity |-> capacity, base |-> base, label |-> label]

\* (variant: a full ribbon makes room at the right end)
RibbonPush_drop_newest(r, digit, position) ==
    LET kept == IF Len(r.patches) >= r.capacity
                THEN SubSeq(r.patches, 1, Len(r.patches) - 1) ELSE r.patches
    IN  [r EXCEPT !.patches = Append(kept, Patch(digit, position))]

\* RibbonState::push
RibbonPush(r, digit, position) ==
    LET kept == IF Len(r.patches) >= r.capacity
                THEN Tail(r.patches) ELSE r.patches
    IN  [r EXCEPT !.patches = Append(kept, Patch(digit, position))]

Phase(name, progress) == [phase |-> name, progress |-> progress]
Unstitched  == Phase("Unstitched", 0)
Stitched    == Phase("Stitched", 0)
Stitching(progress)   == Phase("Stitching", progress)
Unstitching(progress) == Phase("Unstitching", progress)

\* (variant: the Unstitching arm commits Stitched)
StitchTick_pasted(st) ==
    IF st.phase \in { "Stitching", "Unstitching" }
    THEN LET p == F32Add(st.progress, StitchInc)
         IN  IF p >= F32One THEN [phase |-> Stitched, done |-> TRUE]
             ELSE [phase |-> Phase(st.phase, p), done |-> FALSE]
    ELSE [phase |-> st, done |-> FALSE]

\* StitchPhase::tick: the new phase and the returned flag
StitchTick(st) ==
    IF st.phase = "Stitching"
    THEN LET p == F32Add(st.progress, StitchInc)
         IN  IF p >= F32One THEN [phase |-> Stitched, done |-> TRUE]
             ELSE [phase |-> Stitching(p), done |-> FALSE]
    ELSE IF st.phase = "Unstitching"
    THEN LET p == F32Add(st.progress, StitchInc)
         IN  IF p >= F32One THEN [phase |-> Unstitched, done |-> TRUE]
             ELSE [phase |-> Unstitching(p), done |-> FALSE]
    ELSE [phase |-> st, done |-> FALSE]

\* StitchPhase::is_stitched
is_stitched(st) == st.phase \in { "Stitched", "Stitching" }

\* SnippetTray keeps at most this many entries
TrayCap == 8

\* TrayEntry
TrayEntry(name, pairs) == [name |-> name, patches |-> pairs]

\* (variant: a full tray turns the new entry away)
TrayDeposit_keep_old(entries, name, pairs) ==
    LET pushed == Append(entries, TrayEntry(name, pairs))
    IN  IF Len(pushed) > TrayCap THEN entries ELSE pushed

\* SnippetTray::deposit
TrayDeposit(entries, name, pairs) ==
    LET pushed == Append(entries, TrayEntry(name, pairs))
    IN  IF Len(pushed) > TrayCap THEN Tail(pushed) ELSE pushed

\* a client of a SnippetTray of its own, as in the test tray_max_entries:
\* deposit(name, vec![])
TrayClientDeposit(name) ==
    /\ prog = "tray"
    /\ Len(tray_log) < MaxDeposits
    /\ tray' = TrayDeposit(tray, name, << >>)
    /\ tray_log' = Append(tray_log, TrayEntry(name, << >>))
    /\ UNCHANGED << prog, cfg, midiVars, runVars, dsVars, playerVars, dual, left_ribbon,
                    right_ribbon, play_state, stitch, scissor_anim,
                    note_highlight >>

\* ScissorAnimation::new / tick / done
ScissorNew(start_patch, count) ==
    [progress |-> 0, start_patch |-> start_patch, count |-> count]

ScissorTick(sc) ==
    [sc EXCEPT !.progress = Min(F32Add(sc.progress, ScissorInc), F32One)]

ScissorDone(sc) == sc.progress >= F32One

(***************************************************************************)
(* AppState (leap_spigot/src/app.rs).                                      *)
(***************************************************************************)
\* GestureEvent values
Gesture(type, arg) == [type |-> type, arg |-> arg]
PullLeft(steps)  == Gesture("PullLeft", steps)
PullRight(steps) == Gesture("PullRight", steps)
Twist            == Gesture("Twist", 0)
Clap             == Gesture("Clap", 0)
Unclap           == Gesture("Unclap", 0)
Scissors(name)   == Gesture("Scissors", name)
GQuit            == Gesture("Quit", 0)

RECURSIVE Prefill(_, _, _, _, _)
\* AppState::new: pre-fill both ribbons from a fresh stream, i = from..to-1
Prefill(pre, lrib, rrib, i, n) ==
    IF i >= n THEN [left |-> lrib, right |-> rrib]
    ELSE IF ZipExhausted(pre) THEN Prefill(pre, lrib, rrib, i + 1, n)
    ELSE LET s == zip_next(pre)
         IN  Prefill(s.ds, RibbonPush(lrib, s.pair[1], i),
                     RibbonPush(rrib, s.pair[2], i), i + 1, n)

\* the two ribbons AppState::new builds
InitialRibbons(c) ==
    Prefill(from_configs(c.left_config, c.right_config),
            RibbonNew(c.ribbon_capacity, c.left_config.base,
                      Label(c.left_config)),
            RibbonNew(c.ribbon_capacity, c.right_config.base,
                      Label(c.right_config)),
            0, c.ribbon_capacity)

RECURSIVE PullLeftLoop(_, _, _)
\* handle_gesture, PullLeft: steps times left().next() and push
PullLeftLoop(d, rib, steps) ==
    IF steps = 0 THEN [ds |-> d, ribbon |-> rib]
    ELSE IF Exhausted(d.left) THEN PullLeftLoop(d, rib, steps - 1)
    ELSE LET s == LeftNext(d)
         IN  PullLeftLoop(s.ds, RibbonPush(rib, s.digit, left_pos(s.ds)),
                          steps - 1)

RECURSIVE PullRightLoop(_, _, _)
\* handle_gesture, PullRight: steps times right().next() and push
PullRightLoop(d, rib, steps) ==
    IF steps = 0 THEN [ds |-> d, ribbon |-> rib]
    ELSE IF Exhausted(d.right) THEN PullRightLoop(d, rib, steps - 1)
    ELSE LET s == RightNext(d)
         IN  PullRightLoop(s.ds, RibbonPush(rib, s.digit, right_pos(s.ds)),
                           steps - 1)

\* the AppState exists in the test-style client and in the full application
AppRuns == prog \in { "leap_spigot", "run", "snipper" }

\* (variant: the drain applies only the newest pending event of a frame)
Called_latest(evt) ==
    IF prog = "run"
    THEN /\ rpc = "drain"
         /\ gest_ch # << >>
         /\ gest_ch[Len(gest_ch)] = evt
         /\ gest_ch' = << >>
         /\ handled' = Append(handled, evt)
         /\ UNCHANGED << sim_ch, gsrc, rpc, sim_log, gsent >>
    ELSE UNCHANGED runVars

\* who calls handle_gesture(evt): in the full application the drain loop of
\* run(), with the event try_recv just returned; otherwise a client, at will
Called(evt) ==
    IF prog = "run"
    THEN /\ rpc = "drain"
         /\ gest_ch # << >>
         /\ Head(gest_ch) = evt
         /\ gest_ch' = Tail(gest_ch)
         /\ handled' = Append(handled, evt)
         /\ UNCHANGED << sim_ch, gsrc, rpc, sim_log, gsent >>
    ELSE UNCHANGED runVars

\* who calls tick(): in the full application the frame loop of run(), after
\* the drain; the frame is then rendered and the loop starts over
FrameTick ==
    IF prog = "run"
    THEN /\ rpc = "tick"
         /\ rpc' = "poll"
         /\ UNCHANGED << sim_ch, gest_ch, gsrc, sim_log, gsent, handled >>
    ELSE UNCHANGED runVars

\* (variant: the pull draws pairs, so the right cursor advances as well)
HandlePullLeft_both(steps) ==
    /\ AppRuns
    /\ Called(PullLeft(steps))
    /\ left_pos(dual) + steps <= MaxPull
    /\ dual' = [PullLeftLoop(dual, left_ribbon, steps).ds
                   EXCEPT !.right = CursorDrop(dual.right, steps)]
    /\ left_ribbon' = PullLeftLoop(dual, left_ribbon, steps).ribbon
    /\ UNCHANGED << prog, cfg, midiVars, dsVars, playerVars, right_ribbon, play_state,
                    stitch, tray, tray_log, scissor_anim, note_highlight >>

\* handle_gesture(PullLeft { steps, .. })
HandlePullLeft(steps) ==
    /\ AppRuns
    /\ Called(PullLeft(steps))
    /\ left_pos(dual) + steps <= MaxPull
    /\ dual' = PullLeftLoop(dual, left_ribbon, steps).ds
    /\ left_ribbon' = PullLeftLoop(dual, left_ribbon, steps).ribbon
    /\ UNCHANGED << prog, cfg, midiVars, dsVars, playerVars, right_ribbon, play_state,
                    stitch, tray, tray_log, scissor_anim, note_highlight >>

\* (variant: the pull shows the digits without consuming them)
HandlePullRight_peek(steps) ==
    /\ AppRuns
    /\ Called(PullRight(steps))
    /\ right_pos(dual) + steps <= MaxPull
    /\ dual' = dual
    /\ right_ribbon' = PullRightLoop(dual, right_ribbon, steps).ribbon
    /\ UNCHANGED << prog, cfg, midiVars, dsVars, playerVars, left_ribbon, play_state,
                    stitch, tray, tray_log, scissor_anim, note_highlight >>

\* handle_gesture(PullRight { steps, .. })
HandlePullRight(steps) ==
    /\ AppRuns
    /\ Called(PullRight(steps))
    /\ right_pos(dual) + steps <= MaxPull
    /\ dual' = PullRightLoop(dual, right_ribbon, steps).ds
    /\ right_ribbon' = PullRightLoop(dual, right_ribbon, steps).ribbon
    /\ UNCHANGED << prog, cfg, midiVars, dsVars, playerVars, left_ribbon, play_state,
                    stitch, tray, tray_log, scissor_anim, note_highlight >>

\* (variant: the twist is applied to the player's stream as well)
HandleTwist_player ==
    /\ AppRuns
    /\ Called(Twist)
    /\ dual' = twist(dual)
    /\ p_stream' = twist(p_stream)
    /\ left_ribbon'  = [right_ribbon EXCEPT !.label = Label(dual'.left.config)]
    /\ right_ribbon' = [left_ribbon EXCEPT !.label = Label(dual'.right.config)]
    /\ UNCHANGED << prog, cfg, midiVars, dsVars, cmd_ch, note_ch, ppc, playing,
                    p_instrument, p_tempo, p_note, midi_out, note_log,
                    sent_log, note_at, play_state, stitch, tray, tray_log,
                    scissor_anim, note_highlight >>

\* (variant: the cursors are exchanged and the ribbons relabelled, but the
\* patches stay where they were)
HandleTwist_relabel ==
    /\ AppRuns
    /\ Called(Twist)
    /\ dual' = twist(dual)
    /\ left_ribbon'  = [left_ribbon EXCEPT !.label = Label(dual'.left.config)]
    /\ right_ribbon' = [right_ribbon EXCEPT !.label = Label(dual'.right.config)]
    /\ UNCHANGED << prog, cfg, midiVars, dsVars, playerVars, play_state, stitch, tray, tray_log,
                    scissor_anim, note_highlight >>

\* handle_gesture(Twist)
HandleTwist ==
    /\ AppRuns
    /\ Called(Twist)
    /\ dual' = twist(dual)
    /\ left_ribbon'  = [right_ribbon EXCEPT !.label = Label(dual'.left.config)]
    /\ right_ribbon' = [left_ribbon EXCEPT !.label = Label(dual'.right.config)]
    /\ UNCHANGED << prog, cfg, midiVars, dsVars, playerVars, play_state, stitch, tray, tray_log,
                    scissor_anim, note_highlight >>

\* (variant: Clap restarts playback without looking at play_state)
HandleClap_unguarded ==
    /\ AppRuns
    /\ Called(Clap)
    /\ Len(sent_log) < MaxClaps
    /\ play_state' = "Playing"
    /\ stitch' = Stitching(0)
    /\ SendCmd(Play)
    /\ UNCHANGED << prog, cfg, midiVars, dsVars, threadVars, dual, left_ribbon,
                    right_ribbon, tray, tray_log, scissor_anim, note_highlight >>

\* handle_gesture(Clap)
HandleClap ==
    /\ AppRuns
    /\ Called(Clap)
    /\ IF play_state = "Stopped"
       THEN /\ Len(sent_log) < MaxClaps
            /\ play_state' = "Playing"
            /\ stitch' = Stitching(0)
            /\ SendCmd(Play)
       ELSE UNCHANGED << play_state, stitch, cmd_ch, sent_log >>
    /\ UNCHANGED << prog, cfg, midiVars, dsVars, threadVars, dual, left_ribbon,
                    right_ribbon, tray, tray_log, scissor_anim, note_highlight >>

\* (variant: Unclap stops playback without looking at play_state)
HandleUnclap_unguarded ==
    /\ AppRuns
    /\ Called(Unclap)
    /\ Len(sent_log) < MaxClaps
    /\ play_state' = "Stopped"
    /\ stitch' = Unstitching(0)
    /\ SendCmd(Stop)
    /\ UNCHANGED << prog, cfg, midiVars, dsVars, threadVars, dual, left_ribbon,
                    right_ribbon, tray, tray_log, scissor_anim, note_highlight >>

\* (variant: Unclap stops playback and leaves the ribbons stitched)
HandleUnclap_stays_stitched ==
    /\ AppRuns
    /\ Called(Unclap)
    /\ IF play_state = "Playing"
       THEN /\ Len(sent_log) < MaxClaps
            /\ play_state' = "Stopped"
            /\ SendCmd(Stop)
            /\ UNCHANGED stitch
       ELSE UNCHANGED << play_state, stitch, cmd_ch, sent_log >>
    /\ UNCHANGED << prog, cfg, midiVars, dsVars, threadVars, dual, left_ribbon,
                    right_ribbon, tray, tray_log, scissor_anim, note_highlight >>

\* handle_gesture(Unclap)
HandleUnclap ==
    /\ AppRuns
    /\ Called(Unclap)
    /\ IF play_state = "Playing"
       THEN /\ Len(sent_log) < MaxClaps
            /\ play_state' = "Stopped"
            /\ stitch' = Unstitching(0)
            /\ SendCmd(Stop)
       ELSE UNCHANGED << play_state, stitch, cmd_ch, sent_log >>
    /\ UNCHANGED << prog, cfg, midiVars, dsVars, threadVars, dual, left_ribbon,
                    right_ribbon, tray, tray_log, scissor_anim, note_highlight >>

\* saturating_sub on usize
SaturatingSub(a, b) == IF a >= b THEN a - b ELSE 0

\* (variant: the window is counted back from the right position)
SnipFrom_right == SaturatingSub(right_pos(dual), Len(left_ribbon.patches))

\* do_snip: from = left_pos.saturating_sub(left_ribbon.patches.len())
SnipFrom == SaturatingSub(left_pos(dual), Len(left_ribbon.patches))

\* snips in a run: few next to all the other gestures, more than the tray
\* holds for a client that only pulls left, snips and ticks
SnipLimit == IF prog = "snipper" THEN MaxDeposits ELSE MaxSnips

\* (variant: an empty window goes to the tray but is not stored)
DoSnipTo_empty_unstored(name, stored) ==
    /\ AppRuns
    /\ Called(Scissors(name))
    /\ Len(tray_log) < SnipLimit
    /\ LET to    == left_pos(dual)
           count == to - SnipFrom
           pairs == ZipSeq(left_ribbon.patches, right_ribbon.patches)
       IN  /\ dual' = IF count = 0 THEN dual ELSE stored
           /\ tray' = TrayDeposit(tray, name, pairs)
           /\ tray_log' = Append(tray_log, TrayEntry(name, pairs))
           /\ scissor_anim' =
                 Some(ScissorNew(0, Min(count, left_ribbon.capacity)))
    /\ UNCHANGED << prog, cfg, midiVars, dsVars, playerVars, left_ribbon, right_ribbon,
                    play_state, stitch, note_highlight >>

\* do_snip: the tray deposit and the scissor animation, with the live stream
\* left as stored
DoSnipTo(name, stored) ==
    /\ AppRuns
    /\ Called(Scissors(name))
    /\ Len(tray_log) < SnipLimit
    /\ LET to    == left_pos(dual)
           count == to - SnipFrom
           pairs == ZipSeq(left_ribbon.patches, right_ribbon.patches)
       IN  /\ dual' = stored
           /\ tray' = TrayDeposit(tray, name, pairs)
           /\ tray_log' = Append(tray_log, TrayEntry(name, pairs))
           /\ scissor_anim' =
                 Some(ScissorNew(0, Min(count, left_ribbon.capacity)))
    /\ UNCHANGED << prog, cfg, midiVars, dsVars, playerVars, left_ribbon, right_ribbon,
                    play_state, stitch, note_highlight >>

\* (variant: the snapshot is collected by zip_take on the live stream)
DoSnip_zip_take(name) ==
    DoSnipTo(name, zip_take(snip(dual, name, SnipFrom, left_pos(dual)),
                            left_pos(dual) - SnipFrom).ds)

\* AppState::do_snip(name), also reached by handle_gesture(Scissors { name })
DoSnip(name) == DoSnipTo(name, snip(dual, name, SnipFrom, left_pos(dual)))

\* (variant: the first patch at or after lpos itself)
HighlightIndex_at(patches, lpos) ==
    IF \E i \in 1..Len(patches) : patches[i].position >= lpos
    THEN Some((CHOOSE i \in 1..Len(patches) :
                 /\ patches[i].position >= lpos
                 /\ \A j \in 1..(i - 1) : ~(patches[j].position >= lpos)) - 1)
    ELSE None

\* index (0-based) of the first patch with position + 1 >= lpos, or None
HighlightIndex(patches, lpos) ==
    IF \E i \in 1..Len(patches) : patches[i].position + 1 >= lpos
    THEN Some((CHOOSE i \in 1..Len(patches) :
                 /\ patches[i].position + 1 >= lpos
                 /\ \A j \in 1..(i - 1) :
                        ~(patches[j].position + 1 >= lpos)) - 1)
    ELSE None

\* (variant: a finished scissor animation is kept)
Tick_keeps_scissor ==
    /\ AppRuns
    /\ FrameTick
    /\ stitch' = StitchTick(stitch).phase
    /\ scissor_anim' =
          IF scissor_anim = None THEN None
          ELSE Some(ScissorTick(scissor_anim[1]))
    /\ note_ch' = << >>
    /\ note_highlight' =
          IF note_ch = << >> THEN note_highlight
          ELSE HighlightIndex(left_ribbon.patches,
                              note_ch[Len(note_ch)].left_pos)
    /\ UNCHANGED << prog, cfg, midiVars, dsVars, cmd_ch, sent_log, ppc, playing,
                    p_instrument, p_tempo, p_stream, p_note, midi_out,
                    note_log, note_at, dual, left_ribbon, right_ribbon,
                    play_state, tray, tray_log >>

\* AppState::tick: one frame
Tick ==
    /\ AppRuns
    /\ FrameTick
    /\ stitch' = StitchTick(stitch).phase
    /\ scissor_anim' =
          IF scissor_anim = None THEN None
          ELSE IF ScissorDone(ScissorTick(scissor_anim[1])) THEN None
          ELSE Some(ScissorTick(scissor_anim[1]))
    /\ note_ch' = << >>
    /\ note_highlight' =
          IF note_ch = << >> THEN note_highlight
          ELSE HighlightIndex(left_ribbon.patches,
                              note_ch[Len(note_ch)].left_pos)
    /\ UNCHANGED << prog, cfg, midiVars, dsVars, cmd_ch, sent_log, ppc, playing,
                    p_instrument, p_tempo, p_stream, p_note, midi_out,
                    note_log, note_at, dual, left_ribbon, right_ribbon,
                    play_state, tray, tray_log >>

(***************************************************************************)
(* The full application, run() of app.rs: the window's key polling, the    *)
(* gesture source thread (SimGestureSource) and the frame loop.  The frame *)
(* loop calls handle_gesture and tick through Called and FrameTick above.  *)
(***************************************************************************)
\* SimInput values
KeyDown(k) == [input |-> "KeyDown", key |-> k]
SnippetName(name) == [input |-> "SnippetName", key |-> name]

\* the keys poll_input looks at, in the order it does
WindowKeys == << "Q", "T", "Space", "Escape", "S", "A", "D" >>

\* the SimKey poll_input sends for a key; shift selects the fast pulls
SimKeyOf(key, shift) ==
    CASE key = "Q"      -> "Quit"
      [] key = "T"      -> "Twist"
      [] key = "Space"  -> "Clap"
      [] key = "Escape" -> "Unclap"
      [] key = "S"      -> "Scissors"
      [] key = "A"      -> IF shift THEN "PullLeftFast" ELSE "PullLeft"
      [] key = "D"      -> IF shift THEN "PullRightFast" ELSE "PullRight"

RECURSIVE PollSends(_, _, _)
\* poll_input without Q: what it sends for the keys pressed in this frame
PollSends(pressed, shift, i) ==
    IF i > Len(WindowKeys) THEN << >>
    ELSE (IF WindowKeys[i] \in pressed
          THEN << KeyDown(SimKeyOf(WindowKeys[i], shift)) >>
          ELSE << >>) \o PollSends(pressed, shift, i + 1)

\* SimGestureSource::run: the event an input is translated to, None for the
\* inputs that are skipped
SimToGesture(input) ==
    IF input.input = "SnippetName" THEN Some(Scissors(input.key))
    ELSE IF input.input # "KeyDown" THEN None
    ELSE CASE input.key = "PullLeft"      -> Some(PullLeft(1))
           [] input.key = "PullLeftFast"  -> Some(PullLeft(5))
           [] input.key = "PullRight"     -> Some(PullRight(1))
           [] input.key = "PullRightFast" -> Some(PullRight(5))
           [] input.key = "Twist"         -> Some(Twist)
           [] input.key = "Clap"          -> Some(Clap)
           [] input.key = "Unclap"        -> Some(Unclap)
           [] input.key = "Quit"          -> Some(GQuit)
           [] OTHER                       -> None

RECURSIVE PullSteps(_)
\* digits the pulls among a sequence of inputs ask for
PullSteps(inputs) ==
    IF inputs = << >> THEN 0
    ELSE LET g == SimToGesture(Head(inputs))
         IN  (IF g # None /\ g[1].type \in { "PullLeft", "PullRight" }
              THEN g[1].arg ELSE 0) + PullSteps(Tail(inputs))

\* the inputs of a sequence that the source forwards as Clap or Unclap
ClapKeys(inputs) ==
    Cardinality({ i \in 1..Len(inputs) :
                    /\ inputs[i].input = "KeyDown"
                    /\ inputs[i].key \in { "Clap", "Unclap" } })

\* run, step 1: Visualizer::poll_input with the given keys pressed; with Q
\* among them it sends KeyDown(Quit) and returns false, and run leaves its
\* loop (the receiver of the gesture channel is dropped only when run
\* returns)
RunPoll(pressed, shift) ==
    /\ prog = "run"
    /\ rpc = "poll"
    /\ LET sends == IF "Q" \in pressed THEN << KeyDown("Quit") >>
                    ELSE PollSends(pressed, shift, 1)
       IN  /\ Len(sim_log \o sends) <= MaxKeys
           /\ PullSteps(sim_log \o sends) <= MaxPull
           /\ ClapKeys(sim_log \o sends) <= MaxClaps
           /\ sim_ch' = IF gsrc = "done" THEN sim_ch ELSE sim_ch \o sends
           /\ sim_log' = sim_log \o sends
    /\ rpc' = IF "Q" \in pressed THEN "leave" ELSE "drain"
    /\ UNCHANGED << prog, cfg, midiVars, dsVars, playerVars, appVars, gest_ch, gsrc,
                    gsent, handled >>

\* run: after the break out of the loop run returns Ok(()) and drops the
\* AppState, the Visualizer with the SimInput sender, and the receiver of
\* the gesture channel
RunReturn ==
    /\ prog = "run"
    /\ rpc = "leave"
    /\ rpc' = "exit"
    /\ UNCHANGED << prog, cfg, midiVars, dsVars, playerVars, appVars, sim_ch, gest_ch,
                    gsrc, sim_log, gsent, handled >>

\* run: the window was closed (is_open() is false)
RunWindowClosed ==
    /\ prog = "run"
    /\ rpc = "poll"
    /\ rpc' = "exit"
    /\ UNCHANGED << prog, cfg, midiVars, dsVars, playerVars, appVars, sim_ch, gest_ch,
                    gsrc, sim_log, gsent, handled >>

\* run, step 3: the drain loop ends; Empty goes on to the tick, Quit and
\* Disconnected return from run
RunDrainEnd ==
    /\ prog = "run"
    /\ rpc = "drain"
    /\ IF gest_ch = << >> THEN TRUE ELSE Head(gest_ch) = GQuit
    /\ rpc' = IF gest_ch = << >> /\ gsrc # "done" THEN "tick" ELSE "exit"
    /\ gest_ch' = IF gest_ch = << >> THEN gest_ch ELSE Tail(gest_ch)
    /\ UNCHANGED << prog, cfg, midiVars, dsVars, playerVars, appVars, sim_ch, gsrc,
                    sim_log, gsent, handled >>

\* the holder of the SimInput sender has dropped it
Hangup == [input |-> "Hangup", key |-> ""]

\* the input channel of the gesture source is closed: run has returned and
\* dropped the Visualizer, or a client has dropped its sender
SenderGone ==
    \/ rpc = "exit"
    \/ sim_log # << >> /\ sim_log[Len(sim_log)] = Hangup

\* a client that holds the SimInput sender in place of the window, as a
\* test of SimGestureSource does: it sends any input at any time
SimSend(input) ==
    /\ prog = "run"
    /\ rpc # "exit"
    /\ ~SenderGone
    /\ Len(sim_log) < MaxKeys
    /\ ClapKeys(Append(sim_log, input)) <= MaxClaps
    /\ sim_ch' = IF gsrc = "done" THEN sim_ch ELSE Append(sim_ch, input)
    /\ sim_log' = Append(sim_log, input)
    /\ UNCHANGED << prog, cfg, midiVars, dsVars, playerVars, appVars, gest_ch, gsrc,
                    rpc, gsent, handled >>

\* the client drops the sender
SimHangup ==
    /\ prog = "run"
    /\ rpc # "exit"
    /\ ~SenderGone
    /\ sim_log' = Append(sim_log, Hangup)
    /\ UNCHANGED << prog, cfg, midiVars, dsVars, playerVars, appVars, sim_ch, gest_ch,
                    gsrc, rpc, gsent, handled >>

\* handle_gesture(Quit) called by a client: the arm is empty (the call is
\* noted in handled)
HandleQuit ==
    /\ prog = "leap_spigot"
    /\ Len(handled) < MaxCount
    /\ handled' = Append(handled, GQuit)
    /\ UNCHANGED << prog, cfg, midiVars, dsVars, playerVars, appVars, sim_ch, gest_ch,
                    gsrc, rpc, sim_log, gsent >>

\* (variant: the source forwards Quit like any other event and goes on)
GestureSourceStep_goes_on ==
    /\ prog = "run"
    /\ gsrc = "run"
    /\ sim_ch # << >>
    /\ LET g == SimToGesture(Head(sim_ch))
       IN  IF g = None
           THEN /\ sim_ch' = Tail(sim_ch)
                /\ UNCHANGED << gest_ch, gsent, gsrc >>
           ELSE IF rpc = "exit"
           THEN /\ sim_ch' = << >>
                /\ gsrc' = "done"
                /\ UNCHANGED << gest_ch, gsent >>
           ELSE /\ gest_ch' = Append(gest_ch, g[1])
                /\ gsent' = Append(gsent, g[1])
                /\ gsrc' = "run"
                /\ sim_ch' = Tail(sim_ch)
    /\ UNCHANGED << prog, cfg, midiVars, dsVars, playerVars, appVars, rpc, sim_log,
                    handled >>

\* SimGestureSource::run, one iteration of the loop over the inputs; a send
\* fails once run has returned and dropped the receiver
GestureSourceStep ==
    /\ prog = "run"
    /\ gsrc = "run"
    /\ sim_ch # << >>
    /\ LET g == SimToGesture(Head(sim_ch))
       IN  IF g = None
           THEN /\ sim_ch' = Tail(sim_ch)
                /\ UNCHANGED << gest_ch, gsent, gsrc >>
           ELSE IF rpc = "exit"
           THEN /\ sim_ch' = << >>
                /\ gsrc' = "done"
                /\ UNCHANGED << gest_ch, gsent >>
           ELSE /\ gest_ch' = Append(gest_ch, g[1])
                /\ gsent' = Append(gsent, g[1])
                /\ gsrc' = IF g[1] = GQuit THEN "done" ELSE "run"
                /\ sim_ch' = IF g[1] = GQuit THEN << >> ELSE Tail(sim_ch)
    /\ UNCHANGED << prog, cfg, midiVars, dsVars, playerVars, appVars, rpc, sim_log,
                    handled >>

\* SimGestureSource::run: the loop over the inputs ends, the sender is gone
GestureSourceEnd ==
    /\ prog = "run"
    /\ gsrc = "run"
    /\ sim_ch = << >>
    /\ SenderGone
    /\ gsrc' = "done"
    /\ UNCHANGED << prog, cfg, midiVars, dsVars, playerVars, appVars, sim_ch, gest_ch,
                    rpc, sim_log, gsent, handled >>


(***************************************************************************)
(* spigot_midi: notes, tracks, serialisation to Standard MIDI File bytes.  *)
(* Bytes are numbers 0..255, a byte string is a sequence of them.  A call  *)
(* that panics returns Panic.                                              *)
(***************************************************************************)
\* what a call returned
Returned(fn, args, val) == [fn |-> fn, args |-> args, val |-> val]

Panic == [panic |-> TRUE, bytes |-> << >>]
Bytes(b) == [panic |-> FALSE, bytes |-> b]

\* u16::to_be_bytes, u32::to_be_bytes
BE16(n) == << (n \div 256) % 256, n % 256 >>
BE32(n) == << (n \div 16777216) % 256, (n \div 65536) % 256,
              (n \div 256) % 256, n % 256 >>

\* b"MThd", b"MTrk", and the default description "spigot_midi"
MThd == << 77, 84, 104, 100 >>
MTrk == << 77, 84, 114, 107 >>
SpigotMidiName == << 115, 112, 105, 103, 111, 116, 95, 109, 105, 100, 105 >>

RECURSIVE VlqLoop(_, _, _)
\* write_vlq, the while loop: i is the index (from 0) of the last group
\* written into bytes: [u8; 4]; i -= 1 at i = 0 underflows (a panic in a
\* debug build; in a release build the wrapped index is out of bounds,
\* also a panic)
VlqLoop(bytes, i, value) ==
    IF value = 0 THEN Bytes(SubSeq(bytes, i + 1, 4))
    ELSE IF i = 0 THEN Panic
    ELSE VlqLoop([bytes EXCEPT ![i] = (value % 128) + 128], i - 1,
                 value \div 128)

\* write_vlq(buf, value): the bytes appended to buf
write_vlq(value) ==
    VlqLoop([<< 0, 0, 0, 0 >> EXCEPT ![4] = value % 128], 3, value \div 128)

\* Note
Note(pitch, duration, velocity) ==
    [pitch |-> pitch, duration |-> duration, velocity |-> velocity]

RECURSIVE NoteEvents(_, _)
\* build_track_chunk, the loop over the notes
NoteEvents(notes, ch) ==
    IF notes = << >> THEN Bytes(<< >>)
    ELSE LET note  == Head(notes)
             delta == write_vlq(note.duration)
             rest  == NoteEvents(Tail(notes), ch)
         IN  IF delta.panic \/ rest.panic THEN Panic
             ELSE Bytes(<< 0, 144 + ch, note.pitch, note.velocity >>
                        \o delta.bytes
                        \o << 128 + ch, note.pitch, 0 >>
                        \o rest.bytes)

\* the tempo meta-event of build_track_chunk
TempoEvent(tempo_bpm) ==
    LET micros == 60000000 \div tempo_bpm
    IN  << 0, 255, 81, 3, (micros \div 65536) % 256, (micros \div 256) % 256,
           micros % 256 >>

\* MidiTrack::build_track_chunk
build_track_chunk(t) ==
    LET ch    == t.channel % 16
        len   == write_vlq(Len(t.description))
        notes == NoteEvents(t.notes, ch)
    IN  IF len.panic \/ notes.panic THEN Panic
        ELSE Bytes(TempoEvent(t.tempo_bpm)
                   \o << 0, 255, 3 >> \o len.bytes \o t.description
                   \o << 0, 192 + ch, t.instrument >>
                   \o notes.bytes
                   \o << 0, 255, 47, 0 >>)

\* MidiTrack::to_bytes
to_bytes(t) ==
    LET track == build_track_chunk(t)
    IN  IF track.panic THEN Panic
        ELSE Bytes(MThd \o BE32(6) \o BE16(0) \o BE16(1)
                   \o BE16(t.ticks_per_quarter)
                   \o MTrk \o BE32(Len(track.bytes)) \o track.bytes)

RECURSIVE TrackChunks(_)
\* multi_track_bytes, the loop over the tracks
TrackChunks(ts) ==
    IF ts = << >> THEN Bytes(<< >>)
    ELSE LET chunk == build_track_chunk(Head(ts))
             rest  == TrackChunks(Tail(ts))
         IN  IF chunk.panic \/ rest.panic THEN Panic
             ELSE Bytes(MTrk \o BE32(Len(chunk.bytes)) \o chunk.bytes
                        \o rest.bytes)

\* multi_track_bytes
multi_track_bytes(ts) ==
    IF ts = << >> THEN Bytes(<< >>)
    ELSE LET chunks == TrackChunks(ts)
         IN  IF chunks.panic THEN Panic
             ELSE Bytes(MThd \o BE32(6) \o BE16(1) \o BE16(Len(ts) % 65536)
                        \o BE16(ts[1].ticks_per_quarter) \o chunks.bytes)

(***************************************************************************)
(* spigot_midi: the MidiComposer builder and its client.                   *)
(***************************************************************************)
\* DurationMap::fixed(ticks, base)
DurationMapFixed(ticks, base) == [i \in 1..base |-> ticks]

\* MidiTrack
MidiTrack(notes, tpq, tempo_bpm, instrument, channel, description) ==
    [notes |-> notes, ticks_per_quarter |-> tpq, tempo_bpm |-> tempo_bpm,
     instrument |-> instrument, channel |-> channel,
     description |-> description]

\* MidiComposer::new
MidiComposerNew(stream) ==
    [stream       |-> stream,
     tempo_bpm    |-> 120,
     instrument   |-> 0,
     pitch_map    |-> PitchMapMajor(60),
     duration_map |-> DurationMapMusical(480),
     velocity     |-> 100,
     channel      |-> 0,
     tpq          |-> 480,
     description  |-> SpigotMidiName]

\* the closure of compose: one pair to one Note
PairNote(c, pair) ==
    Note(note_for(c.pitch_map, pair[2]), ticks_for(c.duration_map, pair[1]),
         c.velocity)

\* filters passed to compose_filtered: |_, _| true, |l, _| l % 2 != 0 (the
\* one of the unit test), |_, r| r > 4 and |_, _| false
Preds == { "all", "left_odd", "right_high", "none" }

Accepts(pred, l, r) ==
    CASE pred = "all"        -> TRUE
      [] pred = "left_odd"   -> l % 2 # 0
      [] pred = "right_high" -> r > 4
      [] pred = "none"       -> FALSE

RECURSIVE FilterPairs(_, _)
\* Iterator::filter over the pairs
FilterPairs(pairs, pred) ==
    IF pairs = << >> THEN << >>
    ELSE (IF Accepts(pred, Head(pairs)[1], Head(pairs)[2])
          THEN << Head(pairs) >> ELSE << >>)
         \o FilterPairs(Tail(pairs), pred)

\* results of compose: the track, or the error message; stream is the
\* composer's stream as the call leaves it
ComposeOk(track, stream) ==
    [ok |-> TRUE, track |-> track, err |-> "", stream |-> stream]
ComposeErr(msg, stream) ==
    [ok |-> FALSE, track |-> << >>, err |-> msg, stream |-> stream]

\* the MidiTrack compose builds from the notes
TrackOf(c, notes) ==
    MidiTrack(notes, c.tpq, c.tempo_bpm, c.instrument, c.channel,
              c.description)

\* (variant: the pairs are taken, only the first becomes a note)
compose_one(c, n) ==
    IF n = 0 THEN ComposeErr("n must be > 0", c.stream)
    ELSE LET z == zip_take(c.stream, n)
         IN  ComposeOk(TrackOf(c, << PairNote(c, z.pairs[1]) >>), z.ds)

\* MidiComposer::compose
compose(c, n) ==
    IF n = 0 THEN ComposeErr("n must be > 0", c.stream)
    ELSE LET z     == zip_take(c.stream, n)
             notes == [i \in 1..Len(z.pairs) |-> PairNote(c, z.pairs[i])]
         IN  ComposeOk(TrackOf(c, notes), z.ds)

\* MidiComposer::compose_filtered
compose_filtered(c, n, pred) ==
    IF n = 0 THEN ComposeErr("n must be > 0", c.stream)
    ELSE LET z     == zip_take(c.stream, n)
             kept  == FilterPairs(z.pairs, pred)
             notes == [i \in 1..Len(kept) |-> PairNote(c, kept[i])]
         IN  IF notes = << >>
             THEN ComposeErr("filter rejected all notes", z.ds)
             ELSE ComposeOk(TrackOf(c, notes), z.ds)

\* the tracks of a duet, compose_duet of spigot_midi/src/main.rs
DuetTracks == 2

\* tempos passed to MidiComposer::tempo: the ends of the accepted range,
\* values in it, and the values next to it, which are refused
TempoValues == { 0, 1, 3, 4, 120, 300, 301 }

\* duration tables passed to MidiComposer::duration_map
DurationMaps ==
    { DurationMapMusical(480), DurationMapFixed(268435455, 10),
      DurationMapFixed(268435456, 10) }

MidiRuns == prog = "midi"

\* MidiComposer::new(DualStream::from_configs(..)): the client starts over
MidiNew ==
    /\ MidiRuns
    /\ composer = None
    /\ composer' = Some(MidiComposerNew(from_configs(cfg.left_config,
                                                     cfg.right_config)))
    /\ out' = Returned("new", << >>, 0)
    /\ UNCHANGED << prog, cfg, tracks, runVars, dsVars, playerVars, appVars >>

\* .tempo(bpm): the assertion fails outside 1..300
MidiTempo(bpm) ==
    /\ MidiRuns
    /\ composer # None
    /\ IF bpm > 0 /\ bpm <= 300
       THEN /\ composer' = Some([composer[1] EXCEPT !.tempo_bpm = bpm])
            /\ out' = Returned("tempo", << bpm >>, 0)
       ELSE /\ composer' = None
            /\ out' = Returned("tempo", << bpm >>, Panic)
    /\ UNCHANGED << prog, cfg, tracks, runVars, dsVars, playerVars, appVars >>

\* .velocity(v)
MidiVelocity(v) ==
    /\ MidiRuns
    /\ composer # None
    /\ composer' = Some([composer[1] EXCEPT !.velocity = Min(v, 127)])
    /\ out' = Returned("velocity", << v >>, 0)
    /\ UNCHANGED << prog, cfg, tracks, runVars, dsVars, playerVars, appVars >>

\* GeneralMidi::program (self as u8), for the instruments the tests name
GmProgram(gm) ==
    CASE gm = "AcousticGrandPiano" -> 0
      [] gm = "Vibraphone"         -> 11
      [] gm = "Flute"              -> 73
      [] gm = "Gunshot"            -> 127

\* .instrument(gm)
MidiInstrument(gm) ==
    /\ MidiRuns
    /\ composer # None
    /\ composer' = Some([composer[1] EXCEPT !.instrument = GmProgram(gm)])
    /\ out' = Returned("instrument", << gm >>, 0)
    /\ UNCHANGED << prog, cfg, tracks, runVars, dsVars, playerVars, appVars >>

\* .instrument_raw(program)
MidiInstrumentRaw(program) ==
    /\ MidiRuns
    /\ composer # None
    /\ composer' = Some([composer[1] EXCEPT !.instrument = Min(program, 127)])
    /\ out' = Returned("instrument_raw", << program >>, 0)
    /\ UNCHANGED << prog, cfg, tracks, runVars, dsVars, playerVars, appVars >>

\* .pitch_map(pm)
MidiPitchMap(pm) ==
    /\ MidiRuns
    /\ composer # None
    /\ composer' = Some([composer[1] EXCEPT !.pitch_map = pm])
    /\ out' = Returned("pitch_map", << pm >>, 0)
    /\ UNCHANGED << prog, cfg, tracks, runVars, dsVars, playerVars, appVars >>

\* .ticks_per_quarter(tpq): the assertion fails for 0
MidiTicksPerQuarter(tpq) ==
    /\ MidiRuns
    /\ composer # None
    /\ IF tpq > 0
       THEN /\ composer' = Some([composer[1] EXCEPT !.tpq = tpq])
            /\ out' = Returned("ticks_per_quarter", << tpq >>, 0)
       ELSE /\ composer' = None
            /\ out' = Returned("ticks_per_quarter", << tpq >>, Panic)
    /\ UNCHANGED << prog, cfg, tracks, runVars, dsVars, playerVars, appVars >>

\* .channel(ch): ch & 0x0F
MidiChannel(ch) ==
    /\ MidiRuns
    /\ composer # None
    /\ composer' = Some([composer[1] EXCEPT !.channel = ch % 16])
    /\ out' = Returned("channel", << ch >>, 0)
    /\ UNCHANGED << prog, cfg, tracks, runVars, dsVars, playerVars, appVars >>

\* .description(s)
MidiDescription(s) ==
    /\ MidiRuns
    /\ composer # None
    /\ composer' = Some([composer[1] EXCEPT !.description = s])
    /\ out' = Returned("description", << s >>, 0)
    /\ UNCHANGED << prog, cfg, tracks, runVars, dsVars, playerVars, appVars >>

\* .duration_map(dm)
MidiDurationMap(dm) ==
    /\ MidiRuns
    /\ composer # None
    /\ composer' = Some([composer[1] EXCEPT !.duration_map = dm])
    /\ out' = Returned("duration_map", << dm >>, 0)
    /\ UNCHANGED << prog, cfg, tracks, runVars, dsVars, playerVars, appVars >>

\* .drop_left(n)
MidiDropLeft(n) ==
    /\ MidiRuns
    /\ composer # None
    /\ left_pos(composer[1].stream) + n <= MaxPos
    /\ composer' = Some([composer[1] EXCEPT
                            !.stream = LeftDrop(composer[1].stream, n)])
    /\ out' = Returned("drop_left", << n >>, 0)
    /\ UNCHANGED << prog, cfg, tracks, runVars, dsVars, playerVars, appVars >>

\* .drop_right(n)
MidiDropRight(n) ==
    /\ MidiRuns
    /\ composer # None
    /\ right_pos(composer[1].stream) + n <= MaxPos
    /\ composer' = Some([composer[1] EXCEPT
                            !.stream = RightDrop(composer[1].stream, n)])
    /\ out' = Returned("drop_right", << n >>, 0)
    /\ UNCHANGED << prog, cfg, tracks, runVars, dsVars, playerVars, appVars >>

\* .twist()
MidiTwist ==
    /\ MidiRuns
    /\ composer # None
    /\ composer' = Some([composer[1] EXCEPT
                            !.stream = twist(composer[1].stream)])
    /\ out' = Returned("twist", << >>, 0)
    /\ UNCHANGED << prog, cfg, tracks, runVars, dsVars, playerVars, appVars >>

\* .compose(n): the composer is consumed
MidiCompose(n) ==
    /\ MidiRuns
    /\ composer # None
    /\ left_pos(composer[1].stream) + n <= MaxPos
    /\ right_pos(composer[1].stream) + n <= MaxPos
    /\ composer' = None
    /\ out' = Returned("compose", << n, composer[1] >>,
                       compose(composer[1], n))
    /\ UNCHANGED << prog, cfg, tracks, runVars, dsVars, playerVars, appVars >>

\* .compose_filtered(n, pred): the composer is consumed
MidiComposeFiltered(n, pred) ==
    /\ MidiRuns
    /\ composer # None
    /\ left_pos(composer[1].stream) + n <= MaxPos
    /\ right_pos(composer[1].stream) + n <= MaxPos
    /\ composer' = None
    /\ out' = Returned("compose_filtered", << n, composer[1], pred >>,
                       compose_filtered(composer[1], n, pred))
    /\ UNCHANGED << prog, cfg, tracks, runVars, dsVars, playerVars, appVars >>

\* let t = ... .compose(n).unwrap(): the client keeps the track composed
MidiKeep ==
    /\ MidiRuns
    /\ out.fn = "compose"
    /\ out.val.ok
    /\ Len(tracks) < DuetTracks
    /\ tracks' = Append(tracks, out.val.track)
    /\ out' = Returned("keep", << >>, 0)
    /\ UNCHANGED << prog, cfg, composer, runVars, dsVars, playerVars,
                    appVars >>

\* track.to_bytes() on a track the client holds
MidiToBytes(i) ==
    /\ MidiRuns
    /\ i \in 1..Len(tracks)
    /\ out' = Returned("to_bytes", << tracks[i] >>, to_bytes(tracks[i]))
    /\ UNCHANGED << prog, cfg, composer, tracks, runVars, dsVars, playerVars,
                    appVars >>

\* multi_track_bytes(&tracks) on the tracks the client holds
MidiMultiTrackBytes ==
    /\ MidiRuns
    /\ out' = Returned("multi_track_bytes", tracks, multi_track_bytes(tracks))
    /\ UNCHANGED << prog, cfg, composer, tracks, runVars, dsVars, playerVars,
                    appVars >>

\* the client drops the tracks it holds
MidiDropTracks ==
    /\ MidiRuns
    /\ tracks # << >>
    /\ tracks' = << >>
    /\ out' = Returned("drop", << >>, 0)
    /\ UNCHANGED << prog, cfg, composer, runVars, dsVars, playerVars,
                    appVars >>

(***************************************************************************)
(* Calls of the numeric helpers, as their unit tests make them             *)
(* (the ticks_to_ms tests of player.rs, the vlq tests of spigot_midi).    *)
(***************************************************************************)
\* arguments the helpers are called with: the ticks of the duration maps
\* at 480 ticks per quarter (musical 60..1920, exponential up to 30720)
\* and around them, resolutions up to the largest u16, tempos below, in
\* and above the range the composer accepts
TickValues == { 0, 1, 39, 40, 41, 60, 240, 480, 1920, 30720 }
TpqValues  == { 0, 1, 96, 480, 65535 }
BpmValues  == { 0, 1, 7, 60, 120, 300, 30000, 60001 }

\* values passed to write_vlq: those of the unit tests, the ends of every
\* length of encoding, and values above 28 bits
VlqValues ==
    { 0, 64, 127, 128, 16383, 16384, 2097151, 2097152, 268435455, 268435456,
      2147483647 }

\* a call of write_vlq on an empty buffer
CalcWriteVlq(value) ==
    /\ prog = "calc"
    /\ out' = Returned("write_vlq", << value >>, write_vlq(value))
    /\ UNCHANGED << prog, cfg, composer, tracks, runVars, dsVars, playerVars,
                    appVars >>

\* a call of ticks_to_ms
CalcTicksToMs(ticks, tpq, bpm) ==
    /\ prog = "calc"
    /\ out' = Returned("ticks_to_ms", << ticks, tpq, bpm >>,
                       ticks_to_ms(ticks, tpq, bpm))
    /\ UNCHANGED << prog, cfg, composer, tracks, runVars, dsVars, playerVars,
                    appVars >>

(***************************************************************************)
(* Calls of RibbonState by a client of its own, as in the unit tests.      *)
(***************************************************************************)
\* capacities a client constructs a ribbon with
RibbonCapacities == { 1, Capacity, Capacity + 1 }

\* digits a client pushes
PushDigits == { 3, 7 }

\* RibbonState::new(capacity, 10, "test")
RibbonClientNew(capacity) ==
    /\ prog = "ribbon"
    /\ out.fn = "none"
    /\ left_ribbon' = RibbonNew(capacity, 10, "test")
    /\ out' = Returned("RibbonState::new", << >>, 0)
    /\ UNCHANGED << prog, cfg, composer, tracks, runVars, dsVars, playerVars,
                    dual, right_ribbon, play_state, stitch, tray, tray_log,
                    scissor_anim, note_highlight >>

\* r.push(digit, position)
RibbonClientPush(digit, position) ==
    /\ prog = "ribbon"
    /\ out.fn \in { "RibbonState::new", "push" }
    /\ Len(out.args) < MaxPushes
    /\ left_ribbon' = RibbonPush(left_ribbon, digit, position)
    /\ out' = Returned("push", Append(out.args, << digit, position >>), 0)
    /\ UNCHANGED << prog, cfg, composer, tracks, runVars, dsVars, playerVars,
                    dual, right_ribbon, play_state, stitch, tray, tray_log,
                    scissor_anim, note_highlight >>

(***************************************************************************)
(* Initial states and specifications.                                      *)
(***************************************************************************)
Programs3 == { "dual_spigot", "player", "leap_spigot" }

\* the state after construction with configuration c
InitOf(c) ==
    /\ prog \in Programs3 \cup { "run", "tray", "snipper", "midi", "calc",
                                "ribbon" }
    /\ cfg = c
    /\ ds = from_configs(cfg.left_config, cfg.right_config)
    /\ ret = Ret("new", 0, None)
    /\ cmd_ch = << >>
    /\ note_ch = << >>
    /\ ppc = "start"
    /\ playing = FALSE
    /\ p_instrument = cfg.instrument
    /\ p_tempo = cfg.tempo_bpm
    /\ p_stream = from_configs(cfg.left_config, cfg.right_config)
    /\ p_note = None
    /\ midi_out = << >>
    /\ note_log = << >>
    /\ sent_log = << >>
    /\ note_at = << >>
    /\ dual = from_configs(cfg.left_config, cfg.right_config)
    /\ left_ribbon = InitialRibbons(cfg).left
    /\ right_ribbon = InitialRibbons(cfg).right
    /\ play_state = "Stopped"
    /\ stitch = Unstitched
    /\ tray = << >>
    /\ tray_log = << >>
    /\ scissor_anim = None
    /\ note_highlight = None
    /\ sim_ch = << >>
    /\ gest_ch = << >>
    /\ gsrc = "run"
    /\ rpc = "poll"
    /\ sim_log = << >>
    /\ gsent = << >>
    /\ handled = << >>
    /\ composer = Some(MidiComposerNew(from_configs(cfg.left_config,
                                                    cfg.right_config)))
    /\ tracks = << >>
    /\ out = Returned("none", << >>, 0)

\* every program starts from AppConfig::default()'s window, except the
\* AppState clients, which build their own AppConfig: the gesture clients
\* start from either window, the client that snips until the tray is full
\* from the small one
Init ==
    \E pair \in ConfigPairs, cap \in RibbonWindows :
        /\ InitOf(AppConfigWith(pair[1], pair[2], cap))
        /\ prog = "snipper" => cap = Capacity
        /\ prog \notin { "leap_spigot", "snipper" } => cap = DefaultRibbonCapacity

NextDual ==
    \/ \E n \in Counts : DsDropLeft(n)
    \/ \E n \in Counts : DsDropRight(n)
    \/ \E n \in Counts : DsTakeLeft(n)
    \/ \E n \in Counts : DsTakeRight(n)
    \/ \E n \in Counts : DsZipTake(n)
    \/ DsZipNext
    \/ \E n \in Counts : DsZipFoldN(n)
    \/ DsTwist
    \/ \E key \in Names, r \in SnipRanges : DsSnip(key, r[1], r[2])

NextThread ==
    \/ PlayerStart
    \/ PlayerRecv
    \/ PlayerDrainEmpty
    \/ PlayerWake
    \/ PlayerNoteOn
    \/ PlayerNoteOff
    \/ PlayerGapEnd

NextPlayer ==
    \/ \E c \in ClientCmds : ClientSend(c)
    \/ ClientDrainNotes
    \/ NextThread

\* handle_gesture for every event that changes the AppState (Quit is left
\* to the run loop), as the unit tests call it
NextGestures ==
    \/ \E n \in Counts : HandlePullLeft(n)
    \/ \E n \in Counts : HandlePullRight(n)
    \/ HandleTwist
    \/ HandleClap
    \/ HandleUnclap
    \/ \E name \in AppNames : DoSnip(name)

\* a client that pulls, twists, claps and unclaps, with the player thread
\* running
NextApp ==
    \/ \E n \in Counts : HandlePullLeft(n)
    \/ \E n \in Counts : HandlePullRight(n)
    \/ HandleTwist
    \/ HandleClap
    \/ HandleUnclap
    \/ NextThread

\* a client that claps, unclaps and ticks frames, with the player thread
\* running
NextFrames ==
    \/ HandleClap
    \/ HandleUnclap
    \/ Tick
    \/ NextThread

InitDual   == Init /\ prog = "dual_spigot"
InitPlayer == Init /\ prog = "player"
InitApp    == Init /\ prog = "leap_spigot"

SpecDual   == InitDual /\ [][NextDual]_vars
SpecPlayer == InitPlayer /\ [][NextPlayer]_vars
SpecApp    == InitApp /\ [][NextApp]_vars
SpecFrames == InitApp /\ [][NextFrames]_vars

SpecGestures == InitApp /\ [][NextGestures]_vars

\* a Player-handle client that plays, stops and quits
NextPlayStopQuit ==
    \/ \E c \in { Play, Stop, Quit } : ClientSend(c)
    \/ NextThread

\* a Player-handle client that plays, stops, quits and drops its handle,
\* over an endless or a terminating source; the player thread is an OS
\* thread of its own and every step of it (a try_recv, a bounded sleep, a
\* MIDI message) completes, so it keeps taking steps
NextQuitting ==
    \/ NextPlayStopQuit
    \/ PlayerDrop
    \/ PlayerExhausted

InitQuitting ==
    /\ \/ Init
       \/ InitOf(AppConfig(Short10, Short10))
    /\ prog = "player"

\* a terminating source on both sides: a Player-handle client that plays,
\* stops and quits, or an AppState client that pulls and claps, with the
\* player thread running
NextExhaust ==
    \/ \E c \in { Play, Stop, Quit } : ClientSend(c)
    \/ \E n \in Counts : HandlePullLeft(n)
    \/ \E n \in Counts : HandlePullRight(n)
    \/ HandleClap
    \/ HandleUnclap
    \/ NextThread
    \/ PlayerExhausted

InitExhaust ==
    /\ InitOf(AppConfig(Short10, Short10))
    /\ prog \in { "player", "leap_spigot" }

SpecExhaust == InitExhaust /\ [][NextExhaust]_vars

SpecQuitting ==
    InitQuitting /\ [][NextQuitting]_vars /\ WF_vars(NextThread \/ PlayerExhausted)

\* the velocities an AppConfig or a Player::spawn call can carry (u8): the
\* default, the ends of the MIDI range and values above it
VelocityValues == { 0, DefaultVelocity, 127, 128, 200, 255 }

\* a Player spawned with any velocity, played, stopped and quit
InitVelocity ==
    /\ \E v \in VelocityValues :
          InitOf([AppConfig(Pi10, E10) EXCEPT !.velocity = v])
    /\ prog = "player"

SpecVelocity == InitVelocity /\ [][NextPlayStopQuit]_vars

\* a client that pulls, twists, snips and claps, with the player thread
\* running
NextIso ==
    \/ \E n \in Counts : HandlePullLeft(n)
    \/ \E n \in Counts : HandlePullRight(n)
    \/ HandleTwist
    \/ HandleClap
    \/ \E name \in AppNames : DoSnip(name)
    \/ NextThread

SpecIso == InitApp /\ [][NextIso]_vars

\* a client that pulls and twists while stopped, then claps, with the
\* player thread running: the live stream stays as it was at the Clap
NextClap ==
    \/ play_state = "Stopped" /\ \E n \in Counts : HandlePullLeft(n)
    \/ play_state = "Stopped" /\ \E n \in Counts : HandlePullRight(n)
    \/ play_state = "Stopped" /\ HandleTwist
    \/ HandleClap
    \/ NextThread

SpecClap == InitApp /\ [][NextClap]_vars

\* calls of the numeric helpers
NextCalc ==
    \/ \E ticks \in TickValues, tpq \in TpqValues, bpm \in BpmValues :
          CalcTicksToMs(ticks, tpq, bpm)
    \/ \E value \in VlqValues : CalcWriteVlq(value)

InitCalc == Init /\ prog = "calc" /\ cfg = AppConfig(Pi10, E10)
SpecCalc == InitCalc /\ [][NextCalc]_vars

\* a client of RibbonState: one ribbon, pushes of either digit at the next
\* position or at position 0
NextRibbon ==
    \/ \E capacity \in RibbonCapacities : RibbonClientNew(capacity)
    \/ \E digit \in PushDigits, position \in { 0, Len(out.args) } :
          RibbonClientPush(digit, position)

InitRibbon == Init /\ prog = "ribbon" /\ cfg = AppConfig(Pi10, E10)
SpecRibbon == InitRibbon /\ [][NextRibbon]_vars

\* pitch maps passed to MidiComposer::pitch_map: the default one and the one
\* of the test drop_right_shifts_pitch
PitchMaps == { PitchMapMajor(60), PitchMapChromatic(0) }

\* a client that chooses pitch map and instrument, positions the stream and
\* composes
NextCompose ==
    \/ MidiNew
    \/ \E pm \in PitchMaps : MidiPitchMap(pm)
    \/ MidiInstrument("Vibraphone")
    \/ \E v \in VelocityValues : MidiVelocity(v)
    \/ \E n \in Counts : MidiDropLeft(n)
    \/ \E n \in Counts : MidiDropRight(n)
    \/ MidiTwist
    \/ \E n \in Counts : MidiCompose(n)
    \/ \E n \in Counts, pred \in Preds : MidiComposeFiltered(n, pred)

InitMidi == Init /\ prog = "midi"
SpecCompose == InitMidi /\ [][NextCompose]_vars

\* a client that sets tempo and durations, composes and serialises
NextBytes ==
    \/ MidiNew
    \/ \E bpm \in TempoValues : MidiTempo(bpm)
    \/ \E dm \in DurationMaps : MidiDurationMap(dm)
    \/ \E n \in Counts : MidiCompose(n)
    \/ MidiKeep
    \/ \E i \in 1..DuetTracks : MidiToBytes(i)
    \/ MidiMultiTrackBytes
    \/ MidiDropTracks

InitBytes == InitMidi /\ cfg = AppConfig(Pi10, E10)
SpecBytes == InitBytes /\ [][NextBytes]_vars

\* "Track 2", the name compose_duet gives its second track
Track2Name == << 84, 114, 97, 99, 107, 32, 50 >>

\* resolutions passed to ticks_per_quarter (0 is refused), raw programs
\* passed to instrument_raw and channels passed to channel (in and above
\* the MIDI range)
Resolutions == { 0, 96 }
RawPrograms == { 200 }
Channels    == { 17 }

\* a client that sets up the tracks of a duet as compose_duet does (raw
\* instrument, channel, description) and their resolution, keeps them and
\* serialises
NextDuet ==
    \/ MidiNew
    \/ \E program \in RawPrograms : MidiInstrumentRaw(program)
    \/ \E tpq \in Resolutions : MidiTicksPerQuarter(tpq)
    \/ \E ch \in Channels : MidiChannel(ch)
    \/ MidiDescription(Track2Name)
    \/ \E n \in Counts : MidiCompose(n)
    \/ MidiKeep
    \/ \E i \in 1..DuetTracks : MidiToBytes(i)
    \/ MidiMultiTrackBytes
    \/ MidiDropTracks

SpecDuet == InitBytes /\ [][NextDuet]_vars

\* a client that pulls the left side, claps and ticks frames, with the
\* player thread running
NextHighlight ==
    \/ \E n \in Counts : HandlePullLeft(n)
    \/ HandleClap
    \/ Tick
    \/ NextThread

\* started with a window of one patch, of Capacity patches or of the
\* default number of patches per ribbon
InitHighlight ==
    /\ \E cap \in { 1 } \cup RibbonWindows :
          InitOf(AppConfigWith(Pi10, E10, cap))
    /\ prog = "leap_spigot"

SpecHighlight == InitHighlight /\ [][NextHighlight]_vars

\* a client of a SnippetTray
NextTray == \E name \in Names : TrayClientDeposit(name)

InitTray == Init /\ prog = "tray"
SpecTray == InitTray /\ [][NextTray]_vars

\* a client of the AppState that pulls left, snips and ticks frames; the
\* player thread the AppState spawned starts and, never told to play, idles
NextSnips ==
    \/ \E n \in Counts : HandlePullLeft(n)
    \/ \E name \in AppNames : DoSnip(name)
    \/ Tick
    \/ PlayerStart
    \/ PlayerDrainEmpty
    \/ PlayerWake

InitSnips == Init /\ prog = "snipper"
SpecSnips == InitSnips /\ [][NextSnips]_vars

\* the full application: window, gesture source and frame loop
NextRun ==
    \/ \E pressed \in SUBSET KeySet, shift \in BOOLEAN : RunPoll(pressed, shift)
    \/ RunReturn
    \/ RunWindowClosed
    \/ GestureSourceStep
    \/ GestureSourceEnd
    \/ \E n \in Counts : HandlePullLeft(n)
    \/ \E n \in Counts : HandlePullRight(n)
    \/ HandleTwist
    \/ HandleClap
    \/ HandleUnclap
    \/ RunDrainEnd
    \/ Tick

\* the gesture path with a client in place of the window's keys: the
\* client sends inputs, Quit among them and inputs after it, or hangs up,
\* while the frame loop of run() drains, handles and ticks; and a client of
\* the AppState that calls handle_gesture with Quit
QuitInputs == { KeyDown("Quit"), KeyDown("Twist"), KeyDown("Clap"),
                KeyDown("Scissors") }

NextQuit ==
    \/ \E input \in QuitInputs : SimSend(input)
    \/ SimHangup
    \/ RunPoll({ }, FALSE)
    \/ RunWindowClosed
    \/ GestureSourceStep
    \/ GestureSourceEnd
    \/ HandleTwist
    \/ HandleClap
    \/ HandleQuit
    \/ RunDrainEnd
    \/ Tick

InitQuit ==
    /\ Init
    /\ prog \in { "run", "leap_spigot" }
    /\ cfg = AppConfig(Pi10, E10)

SpecQuit == InitQuit /\ [][NextQuit]_vars

\* the full application with the player thread it spawns: the user claps,
\* unclaps, quits or closes the window; the thread is an OS thread of its
\* own and keeps taking steps, also after run() has returned
NextShutdown ==
    \/ \E pressed \in SUBSET { "Space", "Escape", "Q" } : RunPoll(pressed, FALSE)
    \/ RunReturn
    \/ RunWindowClosed
    \/ GestureSourceStep
    \/ GestureSourceEnd
    \/ HandleClap
    \/ HandleUnclap
    \/ RunDrainEnd
    \/ Tick
    \/ NextThread

\* leap_spigot --quick: run(AppConfig::default())
InitRun == Init /\ prog = "run" /\ cfg = AppConfig(Pi10, E10)
SpecRun == InitRun /\ [][NextRun]_vars

SpecShutdown == InitRun /\ [][NextShutdown]_vars /\ WF_vars(NextThread)

\* the DualStream as used by both of its clients: the menu / demo program
\* and the AppState
InitLib == Init /\ prog \in { "dual_spigot", "leap_spigot" }
NextLib == NextDual \/ NextGestures
SpecLib == InitLib /\ [][NextLib]_vars

(***************************************************************************)
(* Properties of the player thread.                                        *)
(***************************************************************************)
RECURSIVE RemoveFirst(_, _)
\* s without its first occurrence of x
RemoveFirst(s, x) ==
    IF s = << >> THEN << >>
    ELSE IF Head(s) = x THEN Tail(s)
    ELSE << Head(s) >> \o RemoveFirst(Tail(s), x)

RECURSIVE SoundingNotes(_)
\* the (channel, pitch) of every note-on of a MIDI log that no later
\* note-off of the log has closed
SoundingNotes(log) ==
    IF log = << >> THEN << >>
    ELSE LET m      == log[Len(log)]
             before == SoundingNotes(SubSeq(log, 1, Len(log) - 1))
         IN  IF m.msg = "note_on" THEN Append(before, << m.ch, m.a >>)
             ELSE IF m.msg = "note_off"
                  THEN RemoveFirst(before, << m.ch, m.a >>)
             ELSE before

\* C1: in the player loop a note-on is always closed by the note-off of the
\* same pitch and channel before the loop reads a command, starts another
\* note or terminates: what the MIDI sink has received leaves at most one
\* note sounding, exactly the one in flight while the thread is in the
\* note's sleep, and none at any other position of the loop (draining
\* commands, idling, about to start a note, in the gap, terminated).
C1_NoteOffBeforeNextStep ==
    LET snd == SoundingNotes(midi_out)
    IN  /\ Len(snd) <= 1
        /\ ppc # "note" => snd = << >>
        /\ ppc = "note" => snd = << << cfg.channel, p_note[1].pitch >> >>

\* a Stop or Quit is waiting in the control channel while a note sounds
C1_Witness ==
    /\ ppc = "note"
    /\ SoundingNotes(midi_out) # << >>
    /\ cmd_ch # << >>
    /\ Head(cmd_ch).type \in { "Stop", "Quit" }

\* the type of the last Play or Stop of a command log, "none" without one
LastPlayStop(log) ==
    LET idx == { i \in 1..Len(log) : log[i].type \in { "Play", "Stop" } }
    IN  IF idx = { } THEN "none"
        ELSE log[CHOOSE i \in idx : \A j \in idx : j <= i].type

\* the commands that had been sent when the k-th note-on was issued
SentBefore(k) == SubSeq(sent_log, 1, note_at[k].sent)

\* the commands the thread had dequeued when the k-th note-on was issued
AppliedBefore(k) == SubSeq(sent_log, 1, note_at[k].applied)

\* C2 as stated: once a Stop has been sent and no Play after it, the player
\* starts no new note: no note-on is issued at a moment when the last Play
\* or Stop sent is a Stop.
C2_NoNoteAfterStopSent ==
    \A k \in 1..Len(note_at) : LastPlayStop(SentBefore(k)) # "Stop"

\* C2, amended: a note-on is issued only when the last Play or Stop the
\* thread has dequeued is a Play (so none after a Stop has been dequeued
\* with no Play behind it), and after a Stop has been sent at most one more
\* note starts before a later Play is sent.
C2_NoNoteAfterStopDequeued ==
    /\ \A k \in 1..Len(note_at) : LastPlayStop(AppliedBefore(k)) = "Play"
    /\ \A k1, k2 \in 1..Len(note_at) :
          ( /\ k1 < k2
            /\ LastPlayStop(SentBefore(k1)) = "Stop"
            /\ LastPlayStop(SentBefore(k2)) = "Stop" )
          => \E i \in (note_at[k1].sent + 1)..note_at[k2].sent :
                sent_log[i].type = "Play"

\* a note was started after a Stop had been sent; that Stop has since been
\* dequeued and the thread idles
C2_Witness ==
    /\ \E k \in 1..Len(note_at) : LastPlayStop(SentBefore(k)) = "Stop"
    /\ LastPlayStop(sent_log) = "Stop"
    /\ cmd_ch = << >>
    /\ ppc = "sleep"

(***************************************************************************)
(* Properties of the orchestrator's play state.                            *)
(***************************************************************************)
\* what a step may do to the play state, the stitch phase and the control
\* channel
C3_Step ==
    /\ (play_state = "Stopped" /\ play_state' = "Playing")
          => /\ stitch' = Stitching(0)
             /\ sent_log' = Append(sent_log, Play)
             /\ cmd_ch' = Append(cmd_ch, Play)
    /\ (play_state = "Playing" /\ play_state' = "Stopped")
          => /\ stitch' = Unstitching(0)
             /\ sent_log' = Append(sent_log, Stop)
             /\ cmd_ch' = Append(cmd_ch, Stop)
    /\ (HandleClap /\ play_state = "Stopped") => play_state' = "Playing"
    /\ (HandleUnclap /\ play_state = "Playing") => play_state' = "Stopped"
    /\ play_state' = play_state
          => /\ sent_log' = sent_log
             /\ stitch' = stitch
    /\ play_state' # play_state => (HandleClap \/ HandleUnclap)

\* C3: a step that takes PlayState from Stopped to Playing starts
\* Stitching at progress 0 and sends exactly one Play; a step from Playing
\* to Stopped starts Unstitching at progress 0 and sends exactly one Stop;
\* a Clap handled while Stopped does make the transition (Unclap while
\* Playing likewise); a step that leaves PlayState alone sends no command
\* and leaves the stitch phase alone (Clap while Playing, Unclap while
\* Stopped); only Clap and Unclap change PlayState.
C3_PlayStateTransitions == [][C3_Step]_vars

\* a Clap and then an Unclap have been accepted
C3_Witness ==
    /\ play_state = "Stopped"
    /\ stitch = Unstitching(0)
    /\ sent_log = << Play, Stop >>

(***************************************************************************)
(* Properties of the stitch animation.                                     *)
(***************************************************************************)
RECURSIVE TicksLeft(_, _)
\* how many ticks take a stitch phase to a terminal one (counted up to fuel)
TicksLeft(st, fuel) ==
    IF st.phase \in { "Stitched", "Unstitched" } THEN 0
    ELSE IF fuel = 0 THEN 1
    ELSE 1 + TicksLeft(StitchTick(st).phase, fuel - 1)

RECURSIVE Settled(_, _)
\* the phase that ticking leads to
Settled(st, fuel) ==
    IF st.phase \in { "Stitched", "Unstitched" } \/ fuel = 0 THEN st
    ELSE Settled(StitchTick(st).phase, fuel - 1)

Animating(st) == st.phase \in { "Stitching", "Unstitching" }

\* in every state: an animation in progress is at most 20 ticks away from
\* its own terminal phase, and tick returns true exactly when it commits it
C4_Inv ==
    /\ stitch.phase = "Stitching"
          => /\ TicksLeft(stitch, 100) \in 1..20
             /\ Settled(stitch, 100) = Stitched
    /\ stitch.phase = "Unstitching"
          => /\ TicksLeft(stitch, 100) \in 1..20
             /\ Settled(stitch, 100) = Unstitched
    /\ StitchTick(stitch).done
          <=> /\ Animating(stitch)
              /\ ~Animating(StitchTick(stitch).phase)

\* in every step: a frame tick brings a running animation exactly one tick
\* closer; only a tick or an accepted Clap / Unclap changes the phase; a
\* terminal phase is left only by the accepted opposite gesture
C4_Step ==
    /\ (Tick /\ Animating(stitch))
          => TicksLeft(stitch', 100) = TicksLeft(stitch, 100) - 1
    /\ (Animating(stitch) /\ stitch' # stitch)
          => (Tick \/ play_state' # play_state)
    /\ stitch = Stitched
          => \/ stitch' = Stitched
             \/ (play_state = "Playing" /\ play_state' = "Stopped")
    /\ stitch = Unstitched
          => \/ stitch' = Unstitched
             \/ (play_state = "Stopped" /\ play_state' = "Playing")

\* C4: after an accepted Clap, frame ticks bring the stitch phase to
\* Stitched within 20 ticks (well under 100) unless an Unclap is accepted,
\* and it stays Stitched; symmetrically an accepted Unclap leads to
\* Unstitched; StitchPhase::tick returns true exactly on the committing tick.
C4_StitchSettles == []C4_Inv /\ [][C4_Step]_vars

\* a Clap and an Unclap were accepted and both animations have run to the end
C4_Witness ==
    /\ stitch = Unstitched
    /\ play_state = "Stopped"
    /\ sent_log = << Play, Stop >>

(***************************************************************************)
(* Properties of the Dual Stream and of its use by the orchestrator.       *)
(***************************************************************************)
\* the pairs at absolute indices from .. to - 1 of two configurations
ExpectedPairs(lcfg, rcfg, from, to) ==
    [j \in 1..(to - from) |->
        << Digit(lcfg, from + j - 1), Digit(rcfg, from + j - 1) >>]

\* both live cursors of stream e are those of stream d, and so are the
\* digits they return next
SameCursors(d, e) ==
    /\ left_pos(e) = left_pos(d)
    /\ right_pos(e) = right_pos(d)
    /\ e.left = d.left
    /\ e.right = d.right
    /\ LeftTake(e, 2).digits = LeftTake(d, 2).digits
    /\ RightTake(e, 2).digits = RightTake(d, 2).digits

C5_Step ==
    /\ (prog = "dual_spigot" /\ ret'.op = "snip") => SameCursors(ds, ds')
    /\ (prog = "leap_spigot" /\ tray' # tray) => SameCursors(dual, dual')

\* C5: a snip (any name, any range with from <= to, repeated or
\* overlapping) leaves left_pos, right_pos and the digits the live cursors
\* return next as they were, in a DualStream client as well as when the
\* orchestrator handles Scissors / do_snip.
C5_SnipKeepsCursors == [][C5_Step]_vars

\* the orchestrator has just snipped with its live left cursor at 2
C5_Witness ==
    /\ prog = "leap_spigot"
    /\ tray # << >>
    /\ left_pos(dual) = 2
    /\ dual.snippets # << >>
    /\ dual.snippets[1].to = 2

C6_Inv ==
    \A i \in 1..Len(ds.snippets) :
        /\ Len(ds.snippets[i].pairs) = ds.snippets[i].to - ds.snippets[i].from
        /\ \A j \in 1..Len(ds.snippets) :
              ds.snippets[i].name = ds.snippets[j].name => i = j

C6_Step ==
    \A key \in Names, r \in SnipRanges :
        (r[1] <= r[2] /\ DsSnip(key, r[1], r[2]))
        => /\ get_snippet(ds', key) =
                 Some(ExpectedPairs(ds.left.config, ds.right.config,
                                    r[1], r[2]))
           /\ Len(ds'.snippets) =
                 Len(ds.snippets)
                    + (IF get_snippet(ds, key) = None THEN 1 ELSE 0)
           /\ \A other \in Names \ { key } :
                 get_snippet(ds', other) = get_snippet(ds, other)
           /\ snip(ds', key, r[1], r[2]) = ds'

\* C6: snip(name, a, b) stores exactly the b - a pairs at the absolute
\* indices a .. b - 1 of the sequences of the two sides' current
\* configurations, wherever the live cursors are; repeating the call stores
\* the same; a snip under an existing name replaces that entry, and every
\* name is stored at most once.
C6_SnipStoresAbsoluteRange == []C6_Inv /\ [][C6_Step]_vars

\* two snippets are stored, the last one taken with the live left cursor at 3
C6_Witness ==
    /\ ret.op = "snip"
    /\ left_pos(ds) = 3
    /\ Len(ds.snippets) = 2
    /\ get_snippet(ds, "a") =
          Some(ExpectedPairs(ds.left.config, ds.right.config, 1, 3))

RECURSIVE ZipNextTimes(_, _)
\* n successive zip_next() calls: the pairs returned and the final stream
ZipNextTimes(d, n) ==
    IF n = 0 THEN [pairs |-> << >>, ds |-> d]
    ELSE LET s == zip_next(d)
             r == ZipNextTimes(s.ds, n - 1)
         IN  [pairs |-> << s.pair >> \o r.pairs, ds |-> r.ds]

C7_Step ==
    \A n \in Counts :
        /\ DsZipTake(n)
              => /\ left_pos(ds') = left_pos(ds) + n
                 /\ right_pos(ds') = right_pos(ds) + n
                 /\ ret'.val = ZipNextTimes(ds, n).pairs
                 /\ ds' = ZipNextTimes(ds, n).ds
        /\ DsZipFoldN(n)
              => /\ left_pos(ds') = left_pos(ds) + n
                 /\ right_pos(ds') = right_pos(ds) + n
                 /\ ds' = ZipNextTimes(ds, n).ds

\* C7: from any pair of positions zip_take(n) advances both positions by
\* exactly n, returns the pairs that n successive zip_next() calls return
\* and leaves the stream they leave; zip_fold_n(n, ..) advances both sides
\* by n likewise.
C7_ZipTakeIsZipNexts == [][C7_Step]_vars

\* zip_take(2) has returned, started from unequal positions
C7_Witness ==
    /\ ret.op = "zip_take"
    /\ ret.arg = 2
    /\ left_pos(ds) = 3
    /\ right_pos(ds) = 2

C8_Step ==
    ret'.op = "twist"
    => /\ ds'.left = ds.right
       /\ ds'.right = ds.left
       /\ ds'.left.config = ds.right.config
       /\ left_pos(ds') = right_pos(ds)
       /\ right_pos(ds') = left_pos(ds)
       /\ LeftTake(ds', 2).digits = RightTake(ds, 2).digits
       /\ RightTake(ds', 2).digits = LeftTake(ds, 2).digits
       /\ twist(ds') = ds

\* C8: twist() exchanges the two cursors whole: the left side gets the right
\* side's configuration, position and upcoming digits and vice versa, and a
\* second twist() restores the stream exactly, from every reachable state.
C8_TwistSwapsCursors == [](twist(twist(ds)) = ds) /\ [][C8_Step]_vars

\* twist() has turned left at 3 / right at 0 into left at 0 / right at 3
C8_Witness ==
    /\ ret.op = "twist"
    /\ left_pos(ds) = 0
    /\ right_pos(ds) = 3
    /\ cfg.left_config # cfg.right_config
    /\ ds.left.config = cfg.right_config
    /\ ds.right.config = cfg.left_config

\* the next n digits of a configuration from position pos on
DigitsFrom(config, pos, n) == [j \in 1..n |-> Digit(config, pos + j - 1)]

C9_Step ==
    /\ \A n \in Counts :
          /\ (DsDropLeft(n) \/ DsTakeLeft(n))
                => /\ left_pos(ds') = left_pos(ds) + n
                   /\ ds'.right = ds.right
          /\ (DsDropRight(n) \/ DsTakeRight(n))
                => /\ right_pos(ds') = right_pos(ds) + n
                   /\ ds'.left = ds.left
          /\ DsTakeLeft(n)
                => ret'.val = DigitsFrom(ds.left.config, left_pos(ds), n)
          /\ DsTakeRight(n)
                => ret'.val = DigitsFrom(ds.right.config, right_pos(ds), n)
          /\ HandlePullLeft(n)
                => /\ left_pos(dual') = left_pos(dual) + n
                   /\ dual'.right = dual.right
                   /\ right_ribbon' = right_ribbon
          /\ HandlePullRight(n)
                => /\ right_pos(dual') = right_pos(dual) + n
                   /\ dual'.left = dual.left
                   /\ left_ribbon' = left_ribbon
    /\ DsZipNext
          => ret'.val = << << Digit(ds.left.config, left_pos(ds)),
                              Digit(ds.right.config, right_pos(ds)) >> >>

\* C9: a side-specific operation (next / drop / take on one side, the
\* PullLeft or PullRight gesture) advances that side by exactly the count
\* asked for and leaves the other cursor alone, so a zip_next() pairs the
\* left digit at the left position with the right digit at the right
\* position (after left().drop(k) on fresh streams: left index k with right
\* index 0).
C9_SidesIndependent == [][C9_Step]_vars

\* zip_next() has returned after left().drop(2) on fresh streams
C9_Witness ==
    /\ prog = "dual_spigot"
    /\ ret.op = "zip_next"
    /\ left_pos(ds) = 3
    /\ right_pos(ds) = 1
    /\ ds.left.config = cfg.left_config
    /\ ret.val = << << Digit(cfg.left_config, 2),
                       Digit(cfg.right_config, 0) >> >>

(***************************************************************************)
(* Determinism of the notes.                                               *)
(***************************************************************************)
\* C10: the k-th note the player emits has the pitch of the right digit and
\* the tick duration of the left digit at index k - 1 of the configuration
\* pair the run was started with, whatever gestures were handled and
\* whenever Play and Stop were sent; the patches of the ribbon pre-fill and
\* the pair the live stream returns next are the digits of their
\* configurations at their positions.
C10_NotesDependOnConfigOnly ==
    /\ \A k \in 1..Len(note_log) :
          /\ note_log[k].pitch =
                note_for(cfg.pitch_map, Digit(cfg.right_config, k - 1))
          /\ note_log[k].duration =
                ticks_for(cfg.duration_map, Digit(cfg.left_config, k - 1))
    /\ LET ribbons == InitialRibbons(cfg)
       IN  \A j \in 1..Len(ribbons.left.patches) :
              /\ ribbons.left.patches[j].digit =
                    Digit(cfg.left_config, ribbons.left.patches[j].position)
              /\ ribbons.right.patches[j].digit =
                    Digit(cfg.right_config, ribbons.right.patches[j].position)
    /\ zip_next(dual).pair = << Digit(dual.left.config, left_pos(dual)),
                                Digit(dual.right.config, right_pos(dual)) >>

\* two notes were emitted around a Stop and a second Play, with the live
\* stream pulled to position 3 and twisted
C10_Witness ==
    /\ Len(note_log) = 2
    /\ sent_log = << Play, Stop, Play >>
    /\ note_at[1].sent < 2
    /\ note_at[2].sent = 3
    /\ left_pos(dual) = 3
    /\ cfg.left_config # cfg.right_config
    /\ dual.left.config = cfg.right_config

(***************************************************************************)
(* Rejection of a malformed snip range.                                    *)
(***************************************************************************)
\* one step of the menu's snip command on a malformed range
C11_Step ==
    \A key \in Names, r \in SnipRanges :
        (r[1] > r[2] /\ DsSnip(key, r[1], r[2])) =>
            /\ ret'.op = "snip_rejected"
            /\ snippet_keys(ds') = snippet_keys(ds)
            /\ \A name \in Names : get_snippet(ds', name) = get_snippet(ds, name)
            /\ left_pos(ds') = left_pos(ds)
            /\ right_pos(ds') = right_pos(ds)
            /\ ds' = ds

\* C11: a snip request with from > to is rejected with an error outcome and
\* changes nothing: the snippet store (every name's stored pairs and the
\* key list) and both live positions are as before the request.
C11_MalformedSnipRejected == [][C11_Step]_vars

\* a malformed range was rejected for a name that already has a snippet,
\* with the left cursor advanced
C11_Witness ==
    /\ ret.op = "snip_rejected"
    /\ get_snippet(ds, "a") # None
    /\ get_snippet(ds, "b") = None
    /\ left_pos(ds) > 0

(***************************************************************************)
(* Delivery of gestures from the source thread to the frame loop.          *)
(***************************************************************************)
RECURSIVE BeforeQuit(_)
\* the events of a sequence that precede its first Quit
BeforeQuit(events) ==
    IF events = << >> \/ Head(events) = GQuit THEN << >>
    ELSE << Head(events) >> \o BeforeQuit(Tail(events))

\* the events applied so far, followed by those still in the channel, are
\* the events sent so far
C12_Inv ==
    prog = "run" =>
        /\ BeforeQuit(gsent) = BeforeQuit(handled \o gest_ch)
        /\ BeforeQuit(handled) = handled
        /\ Len(handled) + Len(gest_ch) <= Len(gsent)
        /\ Len(gsent) <= Len(handled) + Len(gest_ch) + 1

\* handle_gesture is called with the oldest pending event, which leaves the
\* channel; a drain that ends on Empty has applied everything sent so far
C12_Step ==
    prog = "run" =>
        /\ handled' # handled =>
              /\ gest_ch # << >>
              /\ handled' = Append(handled, Head(gest_ch))
              /\ gest_ch' = Tail(gest_ch)
        /\ (rpc = "drain" /\ rpc' = "tick") =>
              /\ gest_ch = << >>
              /\ handled = gsent
        /\ (gest_ch' # gest_ch /\ handled' = handled /\ rpc' # "exit") =>
              /\ gest_ch' = Append(gest_ch, gsent'[Len(gsent')])
              /\ gsent' = Append(gsent, gsent'[Len(gsent')])

\* C12: gesture delivery is FIFO and lossless: at every moment the events
\* handle_gesture has been called with, followed by the events still in the
\* channel, are exactly the events the source has sent, in order, up to the
\* first Quit; every call takes the oldest pending event; and a frame's
\* drain that ends on an empty channel has applied every event sent so far.
C12_GestureDeliveryFifo == []C12_Inv /\ [][C12_Step]_vars

\* two different events were applied in the order sent and a third one,
\* sent while the frame loop was busy, is pending in the drain
C12_Witness ==
    /\ prog = "run"
    /\ rpc = "drain"
    /\ Len(handled) = 2
    /\ handled[1] # handled[2]
    /\ gest_ch # << >>
    /\ gsent = handled \o gest_ch

(***************************************************************************)
(* Isolation of the live stream from the player's stream.                  *)
(***************************************************************************)
\* the locals of player_thread and what it has put out
ThreadLocals == << ppc, playing, p_instrument, p_tempo, p_stream, p_note,
                   midi_out, note_log, note_at >>

\* what the orchestrator owns
OrchestratorState == << dual, left_ribbon, right_ribbon, play_state, stitch,
                        tray, scissor_anim, note_highlight, sent_log >>

\* a step of the player thread touches nothing the orchestrator owns; a
\* step of the orchestrator touches no local of the thread; the channels
\* are the only state both sides change
C13_Step ==
    /\ ThreadLocals' # ThreadLocals =>
          /\ OrchestratorState' = OrchestratorState
          /\ \/ cmd_ch' = cmd_ch
             \/ cmd_ch # << >> /\ cmd_ch' = Tail(cmd_ch)
          /\ \/ note_ch' = note_ch
             \/ note_ch' = Append(note_ch, note_log'[Len(note_log')])
    /\ OrchestratorState' # OrchestratorState =>
          /\ ThreadLocals' = ThreadLocals
          /\ \/ cmd_ch' = cmd_ch
             \/ cmd_ch' = Append(cmd_ch, sent_log'[Len(sent_log')])
    /\ <<dual, left_ribbon, right_ribbon, tray>>'
          # <<dual, left_ribbon, right_ribbon, tray>> =>
          /\ cmd_ch' = cmd_ch
          /\ sent_log' = sent_log
          /\ note_ch' = note_ch
    /\ p_stream' # p_stream =>
          /\ ppc = "gen"
          /\ p_stream' = zip_next(p_stream).ds

\* the player's stream is the one it was given: start configurations, one
\* pair consumed per note, no snippet
C13_Inv ==
    /\ p_stream.left.config = cfg.left_config
    /\ p_stream.right.config = cfg.right_config
    /\ left_pos(p_stream) = Len(note_log)
    /\ right_pos(p_stream) = Len(note_log)
    /\ p_stream.snippets = << >>

\* C13: the live stream and the player's stream are isolated: no step of
\* the player thread changes the live positions, configurations, ribbons
\* or any other state of the orchestrator; PullLeft, PullRight, Twist and
\* Scissors send no command and change neither the player's stream nor any
\* other local of the thread; the only state both sides change is the two
\* channels.
C13_StreamsIsolated == []C13_Inv /\ [][C13_Step]_vars

\* two notes were played while the live stream was pulled, twisted and
\* snipped
C13_Witness ==
    /\ prog = "leap_spigot"
    /\ Len(note_log) = 2
    /\ left_pos(dual) = 3
    /\ right_pos(dual) = 1
    /\ cfg.left_config # cfg.right_config
    /\ dual.left.config = cfg.right_config
    /\ tray # << >>
    /\ snippet_keys(dual) # << >>

(***************************************************************************)
(* The command batch of an iteration of the player thread.                 *)
(***************************************************************************)
\* the control state of player_thread: playing, instrument, tempo_bpm
Control(p, i, t) == [playing |-> p, instrument |-> i, tempo |-> t]

\* the control state one command leaves behind
ApplyCmd(st, c) ==
    CASE c.type = "Play"          -> [st EXCEPT !.playing = TRUE]
      [] c.type = "Stop"          -> [st EXCEPT !.playing = FALSE]
      [] c.type = "SetInstrument" -> [st EXCEPT !.instrument = c.arg]
      [] c.type = "SetTempo"      -> [st EXCEPT !.tempo = c.arg]
      [] OTHER                    -> st

RECURSIVE Replay(_, _)
\* the control state a sequence of commands, applied in order, leaves behind
Replay(st, cmds) ==
    IF cmds = << >> THEN st
    ELSE Replay(ApplyCmd(st, Head(cmds)), Tail(cmds))

\* the control state the thread starts with
Control0 == Control(FALSE, cfg.instrument, cfg.tempo_bpm)

\* index of the first Quit of a command log, its length without one
FirstQuit(log) ==
    IF \E i \in 1..Len(log) : log[i].type = "Quit"
    THEN CHOOSE i \in 1..Len(log) :
            /\ log[i].type = "Quit"
            /\ \A j \in 1..(i - 1) : log[j].type # "Quit"
    ELSE Len(log)

\* the commands the thread has dequeued so far
Applied ==
    IF ppc = "done" THEN SubSeq(sent_log, 1, FirstQuit(sent_log))
    ELSE SubSeq(sent_log, 1, Len(sent_log) - Len(cmd_ch))

\* the program of the last program change the MIDI sink has received
LastProgram(log) ==
    LET idx == { i \in 1..Len(log) : log[i].msg = "program_change" }
    IN  log[CHOOSE i \in idx : \A j \in idx : j <= i].a

\* the flag, instrument and tempo of the thread are those the dequeued
\* commands leave behind when applied in the order sent, none skipped; the
\* port has received nothing before the thread's own first program change
\* and nothing is dequeued before it
C14_Inv ==
    /\ Control(playing, p_instrument, p_tempo) = Replay(Control0, Applied)
    /\ IF ppc = "start" THEN midi_out = << >> /\ Applied = << >>
       ELSE LastProgram(midi_out) = p_instrument
    /\ ppc # "done" => \A i \in 1..Len(Applied) : Applied[i].type # "Quit"

\* the drain takes the oldest pending command and ends only on an empty
\* channel, with the whole batch applied; the note that follows is played
\* with the flag, instrument and tempo the batch left behind
C14_Step ==
    /\ (cmd_ch' # cmd_ch /\ sent_log' = sent_log) =>
          /\ ppc = "drain"
          /\ \/ cmd_ch' = Tail(cmd_ch)
             \/ Head(cmd_ch).type = "Quit" /\ cmd_ch' = << >>
    /\ (ppc = "drain" /\ ppc' \in { "gen", "sleep" }) =>
          /\ cmd_ch = << >>
          /\ Control(playing, p_instrument, p_tempo)
                = Replay(Control0, sent_log)
          /\ (ppc' = "gen") = Replay(Control0, sent_log).playing
    /\ Len(note_log') > Len(note_log) =>
          /\ ppc = "gen"
          /\ Replay(Control0, Applied).playing
          /\ p_note'[1].millis =
                ticks_to_ms(note_log'[Len(note_log')].duration, TPQ,
                            Replay(Control0, Applied).tempo)
          /\ LastProgram(midi_out) = Replay(Control0, Applied).instrument
          /\ \A k \in 1..Len(note_at') :
                Replay(Control0,
                       SubSeq(sent_log, 1, note_at'[k].applied)).playing

\* C14: at the start of each iteration the thread applies all pending
\* commands in the order sent before the next note, and the playing flag,
\* instrument and tempo used for that note are those the whole batch leaves
\* behind; no command is applied out of order or skipped unless a Quit
\* precedes it.
C14_BatchAppliedInOrder == []C14_Inv /\ [][C14_Step]_vars

\* a batch of Stop, Play and SetTempo was pending after the first note and
\* the second note is sounding at the new tempo
C14_Witness ==
    /\ prog = "player"
    /\ sent_log = << Play, Stop, Play, SetTempo(60) >>
    /\ Len(note_log) = 2
    /\ note_at[1].applied = 1
    /\ note_at[2].applied = 4
    /\ ppc = "note"
    /\ p_note[1].millis = ticks_to_ms(note_log[2].duration, TPQ, 60)
    /\ p_note[1].millis # ticks_to_ms(note_log[2].duration, TPQ, DefaultTempo)

(***************************************************************************)
(* Termination of the player thread.                                       *)
(***************************************************************************)
\* a Quit is waiting in the control channel
QuitPending == \E i \in 1..Len(cmd_ch) : cmd_ch[i].type = "Quit"

\* the notes whose note-on was issued after a Quit had been sent
NotesAfterQuit ==
    { k \in 1..Len(note_at) :
        \E i \in 1..note_at[k].sent : sent_log[i].type = "Quit" }

\* the thread has returned only if it dequeued a Quit, and then the rest of
\* the channel is dropped and the control state is the one the commands up
\* to that Quit leave behind (the flag may also have been cleared by a
\* stream that ran out)
C15_Returned ==
    ppc = "done" =>
        LET last == Replay(Control0, SubSeq(sent_log, 1, FirstQuit(sent_log)))
        IN  /\ \E i \in 1..Len(sent_log) : sent_log[i].type = "Quit"
            /\ cmd_ch = << >>
            /\ p_instrument = last.instrument
            /\ p_tempo = last.tempo
            /\ \/ playing = last.playing
               \/ ~playing /\ ZipExhausted(p_stream)

\* the loop is left only by dequeuing a Quit at the top of an iteration,
\* whatever else was sent, whether or not the sender is still there and
\* whether or not the stream has run out; an iteration goes on to a note
\* only from a drain that found the channel empty; once the loop is left
\* the thread does nothing any more
C15_Step ==
    /\ (ppc # "done" /\ ppc' = "done") =>
          /\ ppc = "drain"
          /\ cmd_ch # << >>
          /\ Head(cmd_ch).type = "Quit"
    /\ (ppc = "drain" /\ ppc' = "gen") => cmd_ch = << >>
    /\ ppc = "done" =>
          /\ UNCHANGED << ppc, playing, p_instrument, p_tempo, p_stream,
                          p_note, midi_out, note_log, note_at, cmd_ch >>
          /\ note_ch' = note_ch \/ note_ch' = << >>

\* C15 as stated: Quit is the only way the player loop ends and it always
\* works: once a Quit has been sent it is eventually dequeued and the thread
\* returns, after completing at most the note in flight (no note-on is
\* issued once a Quit has been sent); the thread returns only by dequeuing
\* a Quit; after that it issues no note-on, program change or NoteEvent and
\* applies none of the commands sent behind the Quit.
C15_QuitEndsPlayer ==
    /\ [](C15_Returned /\ NotesAfterQuit = { })
    /\ [][C15_Step]_vars
    /\ (QuitPending ~> ppc = "done")

\* C15, amended: as stated, except that after a Quit has been sent the
\* thread completes the note in flight and starts at most one further
\* note, the note of an iteration whose drain had found the channel empty
\* before the Quit was sent.
C15_QuitEndsPlayerOneLateNote ==
    /\ [](C15_Returned /\ Cardinality(NotesAfterQuit) <= 1)
    /\ [][C15_Step]_vars
    /\ (QuitPending ~> ppc = "done")

\* the thread has returned on a Quit that was sent after the drain of an
\* iteration had ended: the note of that iteration started after the Quit
\* was sent; a Play sent behind the Quit was never applied; the client had
\* dropped its handle before the note, whose NoteEvent was discarded
C15_Witness ==
    /\ prog = "player"
    /\ ppc = "done"
    /\ rpc = "exit"
    /\ sent_log = << Play, Quit, Play >>
    /\ note_at = << [sent |-> 3, applied |-> 1] >>
    /\ note_ch = << >>
    /\ midi_out[Len(midi_out)].msg = "note_off"

(***************************************************************************)
(* The snippet tray.                                                       *)
(***************************************************************************)
\* the last n elements of a sequence, all of it if it is shorter
LastN(seq, n) == SubSeq(seq, Len(seq) - Min(n, Len(seq)) + 1, Len(seq))

\* C16: the tray is a FIFO capped at 8: after n deposits it holds exactly
\* the min(n, 8) most recently deposited entries, in deposit order, and its
\* length never exceeds 8.
C16_TrayFifoCapped ==
    /\ Len(tray) = Min(Len(tray_log), 8)
    /\ Len(tray) <= 8
    /\ tray = LastN(tray_log, 8)

\* nine entries were deposited, the first under another name than the
\* second, and the tray holds the last eight
C16_Witness ==
    /\ prog = "tray"
    /\ Len(tray_log) = 9
    /\ tray_log[1].name # tray_log[2].name
    /\ tray[1] = tray_log[2]
    /\ tray[8] = tray_log[9]

(***************************************************************************)
(* What a snip of the orchestrator leaves behind.                          *)
(***************************************************************************)
\* one call of do_snip
C17_Step ==
    \A name \in AppNames :
        DoSnip(name) =>
            /\ Len(tray_log') = Len(tray_log) + 1
            /\ tray_log'[Len(tray_log')].name = name
            /\ tray' = (IF Len(tray) = 8 THEN Tail(tray) ELSE tray)
                          \o << tray_log'[Len(tray_log')] >>
            /\ tray'[Len(tray')].name = name
            /\ get_snippet(dual', name) # None
            /\ \E i \in 1..Len(snippet_keys(dual')) :
                  snippet_keys(dual')[i] = name

\* C17: every do_snip(name) deposits exactly one new entry, named name, as
\* the newest entry of the tray, and afterwards a snippet can be retrieved
\* from the live stream's store under that name; in every state, before any
\* pull and with a full tray included.
C17_SnipDepositsAndStores == [][C17_Step]_vars

\* nine snips, the first before any pull and the last into a full tray
\* with the live stream pulled to position 3
C17_Witness ==
    /\ prog = "snipper"
    /\ Len(tray_log) = 9
    /\ Len(tray) = 8
    /\ tray_log[1].patches = ZipSeq(InitialRibbons(cfg).left.patches,
                                    InitialRibbons(cfg).right.patches)
    /\ tray_log[9].patches # tray_log[1].patches
    /\ left_pos(dual) = 3
    /\ get_snippet(dual, "a") # None
    /\ scissor_anim # None
    /\ scissor_anim[1].progress = 0

(***************************************************************************)
(* The scissor animation.                                                  *)
(***************************************************************************)
RECURSIVE ScissorAfter(_)
\* the progress of a scissor animation k ticks after its start
ScissorAfter(k) ==
    IF k = 0 THEN ScissorNew(0, 0).progress
    ELSE ScissorTick([progress |-> ScissorAfter(k - 1)]).progress

\* the progress values of the first 25 ticks
ScissorTrack == [k \in 0..25 |-> ScissorAfter(k)]

\* how many ticks an animation has had
ScissorTicksDone(sc) ==
    CHOOSE k \in 0..25 : ScissorTrack[k] = sc.progress

\* half a unit in the last place of an f32 below 1, in units of 2^-28
HalfUlp == 8

\* the progress rises with every tick, stays below 1 for 24 ticks and is 1,
\* which is done(), after the 25th; a running animation is on that track
\* and has not reached 1
C18_Inv ==
    /\ \A k \in 0..24 : ScissorTrack[k] < ScissorTrack[k + 1]
    /\ ScissorTrack[24] < F32One
    /\ ScissorTrack[25] = F32One
    /\ scissor_anim # None =>
          /\ \E k \in 0..24 : ScissorTrack[k] = scissor_anim[1].progress
          /\ scissor_anim[1].progress < F32One
          /\ ~ScissorDone(scissor_anim[1])

\* a snip starts the animation over at 0; a tick without a snip adds the
\* increment (to the rounding of f32), which is one more tick on the track,
\* and clears the animation on the tick that reaches done(), the 25th;
\* nothing else touches it
C18_Step ==
    /\ tray_log' # tray_log =>
          /\ scissor_anim' # None
          /\ scissor_anim'[1].progress = 0
          /\ ScissorTicksDone(scissor_anim'[1]) = 0
    /\ (Tick /\ scissor_anim # None) =>
          IF ScissorTicksDone(scissor_anim[1]) = 24
          THEN /\ scissor_anim' = None
               /\ ScissorDone(ScissorTick(scissor_anim[1]))
          ELSE /\ scissor_anim' # None
               /\ ~ScissorDone(scissor_anim'[1])
               /\ scissor_anim'[1].progress - scissor_anim[1].progress
                     \in (ScissorInc - HalfUlp)..(ScissorInc + HalfUlp)
               /\ ScissorTicksDone(scissor_anim'[1])
                     = ScissorTicksDone(scissor_anim[1]) + 1
               /\ scissor_anim'[1].start_patch = scissor_anim[1].start_patch
               /\ scissor_anim'[1].count = scissor_anim[1].count
    /\ scissor_anim' # scissor_anim => (Tick \/ tray_log' # tray_log)

\* C18: every snip starts a ScissorAnimation at progress 0, replacing one
\* that is running; under ticks without a further snip the progress rises
\* by a fixed increment, never exceeds 1 and reaches done() within 25 ticks,
\* and on that tick the orchestrator clears the animation.
C18_ScissorAnimationEnds == []C18_Inv /\ [][C18_Step]_vars

\* a snip replaced a running animation, and the new one is on the last
\* tick before done()
C18_Witness ==
    /\ prog = "snipper"
    /\ Len(tray_log) = 2
    /\ scissor_anim # None
    /\ ScissorTicksDone(scissor_anim[1]) = 24
    /\ scissor_anim[1].count = 2
    /\ tray_log[1].patches # tray_log[2].patches

(***************************************************************************)
(* Positions count the digits consumed.                                    *)
(***************************************************************************)
\* a stream is constructed at positions 0; every operation moves a side's
\* position forward by the number of digits it takes from that side; a snip takes none; the positions of a twist are
\* those of the other side before; a position gets smaller only by a twist
C19_Step ==
    /\ left_pos(from_configs(cfg.left_config, cfg.right_config)) = 0
    /\ right_pos(from_configs(cfg.left_config, cfg.right_config)) = 0
    /\ \A n \in Counts :
          /\ (ret'.op = "drop" /\ DsDropLeft(n)) =>
                /\ left_pos(ds') = left_pos(ds) + n
                /\ right_pos(ds') = right_pos(ds)
          /\ (ret'.op = "drop" /\ DsDropRight(n)) =>
                /\ right_pos(ds') = right_pos(ds) + n
                /\ left_pos(ds') = left_pos(ds)
          /\ (ret'.op = "take" /\ DsTakeLeft(n)) =>
                /\ Len(ret'.val) = n
                /\ left_pos(ds') = left_pos(ds) + Len(ret'.val)
                /\ right_pos(ds') = right_pos(ds)
          /\ (ret'.op = "take" /\ DsTakeRight(n)) =>
                /\ Len(ret'.val) = n
                /\ right_pos(ds') = right_pos(ds) + Len(ret'.val)
                /\ left_pos(ds') = left_pos(ds)
          /\ (ret'.op = "zip_take" /\ DsZipTake(n)) =>
                /\ Len(ret'.val) = n
                /\ left_pos(ds') = left_pos(ds) + Len(ret'.val)
                /\ right_pos(ds') = right_pos(ds) + Len(ret'.val)
          /\ (ret'.op = "zip_fold_n" /\ DsZipFoldN(n)) =>
                /\ left_pos(ds') = left_pos(ds) + n
                /\ right_pos(ds') = right_pos(ds) + n
          /\ (left_ribbon' # left_ribbon /\ HandlePullLeft(n)) =>
                /\ left_pos(dual') = left_pos(dual) + n
                /\ right_pos(dual') = right_pos(dual)
          /\ (right_ribbon' # right_ribbon /\ HandlePullRight(n)) =>
                /\ right_pos(dual') = right_pos(dual) + n
                /\ left_pos(dual') = left_pos(dual)
    /\ (ret'.op = "zip_next" /\ DsZipNext) =>
          /\ left_pos(ds') = left_pos(ds) + 1
          /\ right_pos(ds') = right_pos(ds) + 1
    /\ \A key \in Names, r \in SnipRanges :
          (ret'.op \in { "snip", "snip_rejected" }
             /\ DsSnip(key, r[1], r[2])) =>
              /\ left_pos(ds') = left_pos(ds)
              /\ right_pos(ds') = right_pos(ds)
    /\ \A name \in AppNames :
          (tray_log' # tray_log /\ DoSnip(name)) =>
              /\ left_pos(dual') = left_pos(dual)
              /\ right_pos(dual') = right_pos(dual)
    /\ (left_pos(ds') < left_pos(ds) \/ right_pos(ds') < right_pos(ds)) =>
          /\ ret'.op = "twist"
          /\ left_pos(ds') = right_pos(ds)
          /\ right_pos(ds') = left_pos(ds)
    /\ (left_pos(dual') < left_pos(dual)
           \/ right_pos(dual') < right_pos(dual)) =>
          /\ dual' = twist(dual)
          /\ left_pos(dual') = right_pos(dual)
          /\ right_pos(dual') = left_pos(dual)

\* C19: each cursor starts at position 0 and every operation advances its
\* position by exactly the number of digits it takes from that cursor, so
\* the position is the number of digits emitted since construction; no
\* next, drop, take, zip_next, zip_take or snip makes a position smaller,
\* only a twist can.
C19_PositionCountsDigits == [][C19_Step]_vars

\* a twist has just made the left position smaller: 3 before, 1 after
C19_Witness ==
    /\ prog = "dual_spigot"
    /\ ret.op = "twist"
    /\ left_pos(ds) = 1
    /\ right_pos(ds) = 3

(***************************************************************************)
(* Where playback starts.                                                  *)
(***************************************************************************)
\* C20: Clap begins playback from the current zip position: the first note
\* after a Clap has the pitch of the right digit and the duration of the
\* left digit at the live stream's positions at the time of the Clap (here
\* the live stream is not touched after the Clap, so these are its current
\* positions).
C20_FirstNoteFromLivePosition ==
    Len(note_log) >= 1 =>
        /\ note_log[1].pitch =
              note_for(cfg.pitch_map,
                       Digit(dual.right.config, right_pos(dual)))
        /\ note_log[1].duration =
              ticks_for(cfg.duration_map,
                        Digit(dual.left.config, left_pos(dual)))

(***************************************************************************)
(* The S key in simulation mode.                                           *)
(***************************************************************************)
\* C21: in simulation mode the S key, KeyDown(Scissors) from the window, is
\* forwarded by the SimGestureSource as a Scissors event with an empty name:
\* whenever the source takes that input while run is still going, it sends
\* Scissors("") to the orchestrator.
C21_ScissorsKeyForwarded ==
    [][ (IF sim_ch = << >> THEN FALSE
         ELSE /\ Head(sim_ch) = KeyDown("Scissors")
              /\ sim_ch' = Tail(sim_ch)
              /\ rpc # "exit")
        => /\ gsent' = Append(gsent, Scissors(""))
           /\ gest_ch' = Append(gest_ch, Scissors("")) ]_vars

(***************************************************************************)
(* Ticks to milliseconds.                                                  *)
(***************************************************************************)
\* C22: for bpm >= 1 and tpq >= 1, ticks_to_ms(ticks, tpq, bpm) is
\* max(50, ticks * (60000 / bpm) / tpq) with whole-number divisions, taken
\* left to right, and is never below 50; ticks_to_ms(480, 480, 120) = 500,
\* ticks_to_ms(240, 480, 120) = 250 and ticks_to_ms(1, 480, 120) = 50.
C22_TicksToMs ==
    /\ ticks_to_ms(480, 480, 120) = 500
    /\ ticks_to_ms(240, 480, 120) = 250
    /\ ticks_to_ms(1, 480, 120) = 50
    /\ out.fn = "ticks_to_ms" =>
          LET ticks == out.args[1]
              tpq   == out.args[2]
              bpm   == out.args[3]
          IN  /\ out.val >= 50
              /\ (bpm > 60000 /\ tpq >= 1) => out.val = 50
              /\ (bpm \in 1..60000 /\ tpq >= 1) =>
                    \E b \in 0..60000 :
                       \* b is 60000 / bpm, out.val is ticks * b / tpq
                       /\ b * bpm <= 60000
                       /\ 60000 < (b + 1) * bpm
                       /\ IF out.val > 50
                          THEN /\ out.val * tpq <= ticks * b
                               /\ ticks * b < (out.val + 1) * tpq
                          ELSE ticks * b < 51 * tpq

\* a call whose quotient is below the floor, one whose quotient is above it
\* and is not a whole number of milliseconds, and one at the largest ticks
\* and resolution
C22_Witness ==
    /\ out.fn = "ticks_to_ms"
    /\ \/ out.args = << 1, 480, 120 >> /\ out.val = 50
       \/ out.args = << 1920, 96, 7 >> /\ out.val = 171420
       \/ out.args = << 30720, 65535, 1 >> /\ out.val = 28125

(***************************************************************************)
(* Velocity.                                                               *)
(***************************************************************************)
\* C23: whatever velocity is configured, every NoteEvent and every note-on
\* the Player produces carries a velocity of at most 127.
C23_PlayerVelocityClamped ==
    /\ \A i \in 1..Len(note_log) : note_log[i].velocity <= 127
    /\ \A i \in 1..Len(midi_out) :
          midi_out[i].msg = "note_on" => midi_out[i].b <= 127

(***************************************************************************)
(* The layout of the serialised MIDI file, read back from the bytes.       *)
(***************************************************************************)
RECURSIVE VlqRead(_, _, _)
\* reads a variable-length quantity at index p of b: its value and the
\* index after it; ok is FALSE if b ends inside it
VlqRead(b, p, acc) ==
    IF p > Len(b) THEN [ok |-> FALSE, value |-> 0, next |-> p]
    ELSE IF b[p] >= 128 THEN VlqRead(b, p + 1, acc * 128 + (b[p] - 128))
    ELSE [ok |-> TRUE, value |-> acc * 128 + b[p], next |-> p + 1]

\* b holds the bytes bs at index p
HasAt(b, p, bs) ==
    /\ p + Len(bs) - 1 <= Len(b)
    /\ SubSeq(b, p, p + Len(bs) - 1) = bs

\* the number a big-endian byte string stands for
RECURSIVE BEValue(_)
BEValue(bs) ==
    IF bs = << >> THEN 0
    ELSE BEValue(SubSeq(bs, 1, Len(bs) - 1)) * 256 + bs[Len(bs)]

RECURSIVE NotesEnd(_, _, _, _)
\* the index after the note events of notes read from index p of b: for
\* each note a note-on at delta 0 and a note-off with velocity 0 at delta =
\* the duration; 0 if b does not hold them
NotesEnd(b, p, notes, ch) ==
    IF notes = << >> THEN p
    ELSE LET note == Head(notes)
             d    == VlqRead(b, p + 4, 0)
         IN  IF /\ HasAt(b, p, << 0, 144 + ch, note.pitch, note.velocity >>)
                /\ d.ok
                /\ d.value = note.duration
                /\ HasAt(b, d.next, << 128 + ch, note.pitch, 0 >>)
             THEN NotesEnd(b, d.next + 3, Tail(notes), ch)
             ELSE 0

\* the index after the track chunk of t read from index p of b: "MTrk", the
\* length of the payload, and as payload the tempo meta-event, the track
\* name, the program change, the notes and the end of track; 0 if b does
\* not hold that
ChunkEnd(b, p, t) ==
    LET len  == BEValue(SubSeq(b, p + 4, p + 7))
        q    == p + 8
        name == VlqRead(b, q + 10, 0)
        pc   == name.next + Len(t.description)
        ne   == NotesEnd(b, pc + 3, t.notes, t.channel % 16)
    IN  IF /\ HasAt(b, p, MTrk)
           /\ p + 7 <= Len(b)
           /\ HasAt(b, q, << 0, 255, 81, 3 >>)
           /\ HasAt(b, q + 7, << 0, 255, 3 >>)
           /\ name.ok
           /\ name.value = Len(t.description)
           /\ HasAt(b, name.next, t.description)
           /\ HasAt(b, pc, << 0, 192 + (t.channel % 16), t.instrument >>)
           /\ ne # 0
           /\ HasAt(b, ne, << 0, 255, 47, 0 >>)
           /\ ne + 4 = q + len
        THEN ne + 4
        ELSE 0

RECURSIVE ChunksEnd(_, _, _)
\* the index after one chunk per track of ts, read from index p of b
ChunksEnd(b, p, ts) ==
    IF ts = << >> THEN p
    ELSE LET e == ChunkEnd(b, p, Head(ts))
         IN  IF e = 0 THEN 0 ELSE ChunksEnd(b, e, Tail(ts))

\* b is the file of the tracks ts in the given format
FileLayout(b, format, ts) ==
    /\ HasAt(b, 1, MThd \o << 0, 0, 0, 6 >> \o << 0, format >>)
    /\ HasAt(b, 11, << Len(ts) \div 256, Len(ts) % 256 >>)
    /\ HasAt(b, 13, << ts[1].ticks_per_quarter \div 256,
                      ts[1].ticks_per_quarter % 256 >>)
    /\ ChunksEnd(b, 15, ts) = Len(b) + 1

\* what the serialisation calls return, whenever they return
LayoutIfReturned ==
    /\ (out.fn = "to_bytes" /\ ~out.val.panic) =>
          FileLayout(out.val.bytes, 0, out.args)
    /\ (out.fn = "multi_track_bytes" /\ out.args # << >> /\ ~out.val.panic) =>
          FileLayout(out.val.bytes, 1, out.args)

\* C24: to_bytes emits "MThd", length 6, format 0, track count 1, the ticks
\* per quarter, then "MTrk" and the exact length of the payload, which is
\* the tempo meta-event, the track name, the program change, for every note
\* a note-on at delta 0 and a note-off with velocity 0 at delta = its
\* duration, and 00 FF 2F 00; multi_track_bytes emits format 1, the number
\* of tracks, and one such chunk per track.
C24_MidiFileLayout ==
    /\ out.fn = "to_bytes" =>
          /\ ~out.val.panic
          /\ FileLayout(out.val.bytes, 0, out.args)
    /\ (out.fn = "multi_track_bytes" /\ out.args # << >>) =>
          /\ ~out.val.panic
          /\ FileLayout(out.val.bytes, 1, out.args)

(***************************************************************************)
(* Variable-length quantities and the tempo meta-event.                    *)
(***************************************************************************)
\* C25: write_vlq encodes every value as a variable-length quantity: 7 data
\* bits per byte, most significant group first, the high bit set on every
\* byte but the last, no leading zero group, and it decodes back to the
\* value; 0x40 gives [0x40], 128 gives [0x81, 0x00], 0x3FFF gives
\* [0xFF, 0x7F].
C25_VlqEncodesEveryValue ==
    /\ write_vlq(64) = Bytes(<< 64 >>)
    /\ write_vlq(128) = Bytes(<< 129, 0 >>)
    /\ write_vlq(16383) = Bytes(<< 255, 127 >>)
    /\ out.fn = "write_vlq" =>
          LET b == out.val.bytes
          IN  /\ ~out.val.panic
              /\ Len(b) >= 1
              /\ \A i \in 1..(Len(b) - 1) : b[i] \in 128..255
              /\ b[Len(b)] \in 0..127
              /\ Len(b) > 1 => b[1] # 128
              /\ VlqRead(b, 1, 0) =
                    [ok |-> TRUE, value |-> out.args[1], next |-> Len(b) + 1]

\* C26: for every tempo the composer accepts (1 to 300 BPM) the tempo
\* meta-event FF 51 03 of a serialised track is followed by the three bytes
\* of the big-endian encoding of 60,000,000 / BPM.
C26_TempoMicrosPerBeat ==
    (out.fn = "to_bytes" /\ ~out.val.panic) =>
       /\ out.args[1].tempo_bpm \in 1..300
       /\ HasAt(out.val.bytes, 24, << 255, 81, 3 >>)
       /\ BEValue(SubSeq(out.val.bytes, 27, 29))
             = 60000000 \div out.args[1].tempo_bpm

(***************************************************************************)
(* compose and compose_filtered.                                           *)
(***************************************************************************)
\* the note the composer c makes of the i-th pair (i from 1) its stream
\* holds at its positions
NoteOfPair(c, i) ==
    Note(note_for(c.pitch_map,
                  Digit(c.stream.right.config, right_pos(c.stream) + i - 1)),
         ticks_for(c.duration_map,
                   Digit(c.stream.left.config, left_pos(c.stream) + i - 1)),
         c.velocity)

\* the pairs among the next n of c's stream that the filter accepts
AcceptedPairs(c, n, pred) ==
    { i \in 1..n :
        Accepts(pred,
                Digit(c.stream.left.config, left_pos(c.stream) + i - 1),
                Digit(c.stream.right.config, right_pos(c.stream) + i - 1)) }

\* the call consumed exactly n pairs: both positions are n further on, the
\* configurations are the same
ConsumedPairs(c, after, n) ==
    /\ left_pos(after) = left_pos(c.stream) + n
    /\ right_pos(after) = right_pos(c.stream) + n
    /\ after.left.config = c.stream.left.config
    /\ after.right.config = c.stream.right.config

\* C27: compose(n) with n > 0 consumes exactly n zip pairs and returns a
\* track of exactly n notes, the i-th with the duration of the left digit
\* and the pitch of the right digit of pair i; compose(0) returns an error;
\* compose_filtered(n, pred) consumes exactly n pairs, keeps the notes of
\* the accepted pairs in stream order (at most n) and returns an error when
\* no pair is accepted.
C27_ComposeTakesNPairs ==
    /\ out.fn = "compose" =>
          LET n == out.args[1]
              c == out.args[2]
              r == out.val
          IN  IF n = 0 THEN ~r.ok /\ r.stream = c.stream
              ELSE /\ r.ok
                   /\ ConsumedPairs(c, r.stream, n)
                   /\ Len(r.track.notes) = n
                   /\ \A i \in 1..n : r.track.notes[i] = NoteOfPair(c, i)
    /\ out.fn = "compose_filtered" =>
          LET n   == out.args[1]
              c   == out.args[2]
              acc == AcceptedPairs(c, n, out.args[3])
              r   == out.val
          IN  IF n = 0 THEN ~r.ok /\ r.stream = c.stream
              ELSE /\ ConsumedPairs(c, r.stream, n)
                   /\ r.ok = (acc # { })
                   /\ r.ok =>
                        /\ Len(r.track.notes) = Cardinality(acc)
                        /\ Len(r.track.notes) <= n
                        /\ \A i \in acc :
                              r.track.notes[Cardinality(
                                  { j \in acc : j <= i })] = NoteOfPair(c, i)

\* a filtered composition, after a drop on one side, that kept the second of
\* two pairs and not the first
C27_Witness ==
    /\ out.fn = "compose_filtered"
    /\ out.args[1] = 2
    /\ left_pos(out.args[2].stream) # right_pos(out.args[2].stream)
    /\ AcceptedPairs(out.args[2], 2, out.args[3]) = { 2 }
    /\ out.val.ok
    /\ Len(out.val.track.notes) = 1

(***************************************************************************)
(* Note highlighting.                                                      *)
(***************************************************************************)
\* index (from 0) of the leftmost of the patches at the given indices
Leftmost(indices) ==
    IF indices = { } THEN None
    ELSE Some((CHOOSE i \in indices : \A j \in indices : i <= j) - 1)

\* the highlight the tick sets for a note with left-position snapshot lpos:
\* the leftmost patch of the left ribbon with position + 1 >= lpos
HighlightFor(lpos) ==
    Leftmost({ i \in 1..Len(left_ribbon.patches) :
                 left_ribbon.patches[i].position + 1 >= lpos })

\* (the claim as first stated: the leftmost patch with position >= lpos)
HighlightAtOrAfter(lpos) ==
    Leftmost({ i \in 1..Len(left_ribbon.patches) :
                 left_ribbon.patches[i].position >= lpos })

\* C28 (as first stated): on every tick that drains at least one NoteEvent,
\* note_highlight becomes the index of the leftmost patch of the left
\* ribbon whose position is >= the left-position snapshot of the most
\* recent drained note, or none.
C28_HighlightAtSnapshot ==
    [][ (note_ch # << >> /\ note_ch' = << >>) =>
           note_highlight' = HighlightAtOrAfter(note_ch[Len(note_ch)].left_pos)
      ]_vars

\* a tick that drains notes sets the highlight from the last of them, and
\* nothing else changes the highlight
C28_Step ==
    /\ (note_ch # << >> /\ note_ch' = << >>) =>
          note_highlight' = HighlightFor(note_ch[Len(note_ch)].left_pos)
    /\ note_highlight' # note_highlight =>
          (note_ch # << >> /\ note_ch' = << >>)
    /\ (Tick /\ note_ch = << >>) => note_highlight' = note_highlight

\* C28: on every tick that drains at least one NoteEvent, note_highlight
\* becomes the index of the leftmost patch of the left ribbon whose
\* position + 1 is >= the left-position snapshot of the most recent drained
\* note (the patch at or after the digit just played, which has index
\* snapshot - 1), or none if there is no such patch; earlier notes of the
\* same drain are ignored, and a tick that drains no note leaves the
\* highlight unchanged.
C28_HighlightFromLastNote == [][C28_Step]_vars

\* two notes were drained by one tick (the highlight was none when the
\* second note was sent) and the highlight is that of the second one, which
\* is not the patch the first one selects
C28_Witness ==
    /\ Len(note_log) = 2
    /\ note_ch = << >>
    /\ note_highlight = HighlightFor(note_log[2].left_pos)
    /\ note_highlight # HighlightFor(note_log[1].left_pos)
    /\ note_highlight # None
    /\ stitch = Stitching(StitchInc)

(***************************************************************************)
(* The range a Scissors gesture snips.                                     *)
(***************************************************************************)
\* the window do_snip takes in the current state: to is the live left
\* position, from lies the number of visible left patches before it, or is 0
SnipWindow ==
    LET to      == left_pos(dual)
        visible == Len(left_ribbon.patches)
    IN  [from |-> IF to >= visible THEN to - visible ELSE 0, to |-> to]

\* the entry stored under a name (the name is stored)
SnippetNamed(d, name) == d.snippets[SnippetIndex(d.snippets, name)]

\* one Scissors gesture: the request is well-formed, the stream stores under
\* the name the window's range and the pairs of both sides at its indices
C29_Step ==
    \A name \in AppNames :
        DoSnip(name) =>
            /\ SnipWindow.from <= SnipWindow.to
            /\ SnippetIndex(dual'.snippets, name) # 0
            /\ SnippetNamed(dual', name).from = SnipWindow.from
            /\ SnippetNamed(dual', name).to = SnipWindow.to
            /\ Len(SnippetNamed(dual', name).pairs)
                  = SnipWindow.to - SnipWindow.from
            /\ get_snippet(dual', name) =
                  Some(ExpectedPairs(dual.left.config, dual.right.config,
                                     SnipWindow.from, SnipWindow.to))

\* C29: a Scissors gesture snips, for both sides, the absolute range
\* [from, to) where to is the live left position and from is to minus the
\* number of visible left patches, clamped at 0; from <= to holds in every
\* reachable state, so the snip is never rejected, and the stored snippet
\* has exactly to - from pairs.
C29_ScissorsSnipsWindow ==
    /\ [](SnipFrom <= left_pos(dual) /\ SnipWindow.from <= SnipWindow.to)
    /\ [][C29_Step]_vars

\* a snip taken with the live left position past the window length and the
\* right position elsewhere: its range starts after the beginning of the
\* stream and is as long as the window
C29_Witness ==
    /\ prog = "leap_spigot"
    /\ Len(tray_log) = 1
    /\ right_pos(dual) # left_pos(dual)
    /\ SnippetIndex(dual.snippets, "a") # 0
    /\ SnippetNamed(dual, "a").from >= 1
    /\ SnippetNamed(dual, "a").to = left_pos(dual)
    /\ SnippetNamed(dual, "a").to - SnippetNamed(dual, "a").from
          = Len(left_ribbon.patches)
    /\ Len(SnippetNamed(dual, "a").pairs) = Len(left_ribbon.patches)

(***************************************************************************)
(* The positions the patches of a ribbon record.                           *)
(***************************************************************************)
\* every patch of ribbon rib shows the digit at the index it records, in the
\* sequence of configuration config, and the recorded indices rise from left
\* to right
PositionsAreIndices(rib, config) ==
    /\ \A i \in 1..Len(rib.patches) :
          rib.patches[i].digit = Digit(config, rib.patches[i].position)
    /\ \A i, j \in 1..Len(rib.patches) :
          i < j => rib.patches[i].position < rib.patches[j].position

\* C30: every patch in a ribbon records as its position the 0-based index,
\* within that side's digit sequence, of the digit it shows, for patches
\* pre-filled at start-up and for patches pushed by PullLeft / PullRight
\* alike, so within one ribbon positions are strictly increasing from left
\* to right and no digit index appears twice.
C30_PatchPositionsAreIndices ==
    AppRuns =>
        /\ PositionsAreIndices(left_ribbon, dual.left.config)
        /\ PositionsAreIndices(right_ribbon, dual.right.config)

(***************************************************************************)
(* The Twist gesture of the orchestrator.                                  *)
(***************************************************************************)
\* the live stream and the two ribbons, as one value
Windows(d, lrib, rrib) == [dual |-> d, left |-> lrib, right |-> rrib]

\* what a Twist is to leave of w: cursors and ribbons exchanged, each ribbon
\* labelled after the side it now displays
Twisted(w) ==
    [dual  |-> [w.dual EXCEPT !.left = w.dual.right, !.right = w.dual.left],
     left  |-> [w.right EXCEPT !.label = Label(w.dual.right.config)],
     right |-> [w.left EXCEPT !.label = Label(w.dual.left.config)]]

\* one Twist
C31_Step ==
    HandleTwist =>
        /\ Windows(dual', left_ribbon', right_ribbon')
              = Twisted(Windows(dual, left_ribbon, right_ribbon))
        /\ left_ribbon'.patches = right_ribbon.patches
        /\ right_ribbon'.patches = left_ribbon.patches
        /\ left_pos(dual') = right_pos(dual)
        /\ right_pos(dual') = left_pos(dual)
        /\ dual'.left.config = dual.right.config
        /\ dual'.right.config = dual.left.config
        /\ left_ribbon'.label = Label(dual'.left.config)
        /\ right_ribbon'.label = Label(dual'.right.config)
        /\ left_ribbon'.label = right_ribbon.label
        /\ right_ribbon'.label = left_ribbon.label
        /\ Twisted(Windows(dual', left_ribbon', right_ribbon'))
              = Windows(dual, left_ribbon, right_ribbon)
        /\ UNCHANGED << play_state, stitch, tray, tray_log >>

\* C31: the Twist gesture exchanges the two visible windows together with
\* the live cursors: the left ribbon holds the patches the right ribbon held
\* and vice versa, the live positions and configurations are exchanged, each
\* ribbon's label is that of the live side it now displays (the new left
\* label is the old right label); a second Twist restores positions, ribbon
\* contents and labels; PlayState, StitchPhase and the tray are untouched.
C31_TwistExchangesWindows ==
    /\ [](AppRuns =>
             Twisted(Twisted(Windows(dual, left_ribbon, right_ribbon)))
                = Windows(dual, left_ribbon, right_ribbon))
    /\ [][C31_Step]_vars

\* after an odd number of Twists, with sides of different configurations
\* pulled to different positions and playback running: the left ribbon has
\* the label and the side of the start configuration's right
C31_Witness ==
    /\ prog = "leap_spigot"
    /\ cfg.left_config # cfg.right_config
    /\ dual.left.config = cfg.right_config
    /\ left_ribbon.label = Label(cfg.right_config)
    /\ left_pos(dual) # right_pos(dual)
    /\ left_pos(dual) > 0
    /\ right_pos(dual) > 0
    /\ left_ribbon.patches # right_ribbon.patches
    /\ play_state = "Playing"

(***************************************************************************)
(* A digit source that terminates.                                         *)
(***************************************************************************)
\* commands the thread has applied, by type
AppliedOf(type) == Len(SelectSeq(Applied, LAMBDA c : c.type = type))

\* the thread is about to pull a pair and the stream has none: the step
\* clears the flag, emits nothing, moves nothing and goes back to the
\* command drain
C32_PlayerStep ==
    (PlayerRuns /\ ppc = "gen" /\ ZipExhausted(p_stream) /\ ppc' # ppc)
        => /\ playing' = FALSE
           /\ note_log' = note_log
           /\ note_ch' = note_ch
           /\ midi_out' = midi_out
           /\ p_stream' = p_stream
           /\ ppc' = "drain"

\* once the stream has none, commands are still taken in order: a Quit ends
\* the thread, a Play sets the flag again
C32_DrainStep ==
    (PlayerRuns /\ ZipExhausted(p_stream) /\ ppc = "drain" /\ cmd_ch # << >>
     /\ cmd_ch' # cmd_ch /\ sent_log' = sent_log)
        => /\ Head(cmd_ch).type = "Quit" => ppc' = "done"
           /\ Head(cmd_ch).type # "Quit" => (ppc' = "drain" /\ cmd_ch' = Tail(cmd_ch))
           /\ Head(cmd_ch).type = "Play" => playing'
           /\ Head(cmd_ch).type = "Stop" => ~playing'

\* a pull moves the side by the digits the source still has, at most steps,
\* and pushes as many patches; on an exhausted side nothing changes
PulledBy(pos, steps) == Min(steps, IF pos >= ShortLen THEN 0 ELSE ShortLen - pos)

C32_PullStep ==
    \A n \in Counts :
        /\ HandlePullLeft(n) =>
              /\ left_pos(dual') = left_pos(dual) + PulledBy(left_pos(dual), n)
              /\ Exhausted(dual.left) =>
                    (dual' = dual /\ left_ribbon' = left_ribbon)
              /\ \E k \in 0..n :
                    /\ k = left_pos(dual') - left_pos(dual)
                    /\ Len(left_ribbon'.patches)
                          = Min(Len(left_ribbon.patches) + k, left_ribbon.capacity)
        /\ HandlePullRight(n) =>
              /\ right_pos(dual') = right_pos(dual) + PulledBy(right_pos(dual), n)
              /\ Exhausted(dual.right) =>
                    (dual' = dual /\ right_ribbon' = right_ribbon)

\* the thread never stands at the pull with an exhausted stream without a
\* step to take, it emits at most the pairs the source has, and it is done
\* only after a Quit
C32_Inv ==
    /\ (PlayerRuns /\ ppc = "gen" /\ ZipExhausted(p_stream))
          => ENABLED PlayerExhausted
    /\ Len(note_log) <= ShortLen
    /\ ppc = "done" => \E i \in 1..Len(sent_log) : sent_log[i].type = "Quit"

\* C32: stream exhaustion is a graceful stop: if zip_next() on the Player's
\* stream yields nothing, the Player clears its playing flag, produces no
\* NoteEvent, note-on or note-off for that iteration, neither terminates nor
\* fails, and keeps draining commands (a later Quit still terminates it, a
\* later Play retries); in the orchestrator a pull on an exhausted side
\* pushes no patch, leaves the position unchanged and does not fail.
C32_ExhaustionIsGraceful ==
    /\ []C32_Inv
    /\ [][C32_PlayerStep /\ C32_DrainStep /\ C32_PullStep]_vars

\* the source ended, the flag was cleared, a second Play was applied and
\* cleared again without a further note, and then a Quit ended the thread
C32_Witness ==
    /\ prog = "player"
    /\ ppc = "done"
    /\ ZipExhausted(p_stream)
    /\ Len(note_log) = ShortLen
    /\ ~playing
    /\ sent_log[Len(sent_log)].type = "Quit"
    /\ \A i \in 1..Len(sent_log) : sent_log[i].type # "Stop"
    /\ AppliedOf("Play") = 2

\* the orchestrator pulled an exhausted side again: position and window
\* are those the source's last digit left
C32_PullWitness ==
    /\ prog = "leap_spigot"
    /\ Exhausted(dual.left)
    /\ left_pos(dual) = ShortLen
    /\ ~Exhausted(dual.right)

(***************************************************************************)
(* Instrument and tempo commands of the player thread.                     *)
(***************************************************************************)
\* the thread dequeues the command at the head of the control channel
Dequeues == cmd_ch # << >> /\ cmd_ch' # cmd_ch /\ sent_log' = sent_log

\* what the dequeued command does to the MIDI sink and to the thread's
\* instrument, tempo, flag, stream and sounding note
C33_Step ==
    Dequeues =>
        LET c      == Head(cmd_ch)
            before == Replay(Control0, Applied)
        IN  /\ c.type = "Play" =>
                  /\ midi_out' = Append(midi_out,
                        program_change(cfg.channel, before.instrument))
                  /\ p_instrument' = p_instrument
                  /\ p_tempo' = p_tempo
            /\ c.type = "SetInstrument" =>
                  /\ midi_out' = Append(midi_out,
                        program_change(cfg.channel, c.arg))
                  /\ p_instrument' = c.arg
                  /\ p_tempo' = p_tempo
            /\ c.type = "SetTempo" =>
                  /\ midi_out' = midi_out
                  /\ p_tempo' = c.arg
                  /\ p_instrument' = p_instrument
            /\ c.type \in { "SetInstrument", "SetTempo" } =>
                  /\ playing' = playing
                  /\ ppc' = "drain"
            /\ p_stream' = p_stream
            /\ p_note' = p_note
            /\ note_log' = note_log

\* a note's sounding time is fixed when it starts, from the tempo of the
\* commands applied by then, and no command is dequeued while it sounds
C33_NoteStep ==
    /\ Len(note_log') > Len(note_log) =>
          p_note'[1].millis =
             ticks_to_ms(note_log'[Len(note_log')].duration, TPQ,
                         Replay(Control0, Applied).tempo)
    /\ (p_note # None /\ p_note' # None) => p_note' = p_note
    /\ Dequeues => p_note = None

\* C33: every Play re-emits a program change carrying the instrument most
\* recently set before it in channel order (the initial instrument if
\* none); SetInstrument(p) updates the instrument and emits a program
\* change for p when drained, even while stopped; SetTempo(b) emits nothing
\* and changes only the duration of notes started after it is drained,
\* never the note in flight; neither SetInstrument nor SetTempo changes the
\* playing flag or the stream position.
C33_InstrumentAndTempo == [][C33_Step /\ C33_NoteStep]_vars

\* an instrument set while stopped, then Play, a first note at the initial
\* tempo, a SetTempo sent meanwhile and a second note sounding at the new
\* tempo: two program changes for the new instrument follow the initial one
C33_Witness ==
    /\ prog = "player"
    /\ sent_log = << SetInstrument(11), Play, SetTempo(60) >>
    /\ Len(note_log) = 2
    /\ note_at[1].applied = 2
    /\ note_at[2].applied = 3
    /\ ppc = "note"
    /\ SelectSeq(midi_out, LAMBDA m : m.msg = "program_change")
          = << program_change(cfg.channel, cfg.instrument),
               program_change(cfg.channel, 11),
               program_change(cfg.channel, 11) >>
    /\ p_note[1].millis = ticks_to_ms(note_log[2].duration, TPQ, 60)
    /\ p_note[1].millis # ticks_to_ms(note_log[2].duration, TPQ, DefaultTempo)

(***************************************************************************)
(* The window of a ribbon.                                                 *)
(***************************************************************************)
\* the (digit, position) values pushed into the client's ribbon so far
Pushed == out.args

\* C34: after any sequence of n pushes into a RibbonState of capacity
\* c >= 1 the ribbon holds exactly min(n, c) patches, namely the last
\* min(n, c) pushed (digit, position) values in push order with the most
\* recent last; its length never exceeds c in any reachable state.
C34_RibbonWindow ==
    (prog = "ribbon" /\ out.fn \in { "RibbonState::new", "push" }) =>
        LET n == Len(Pushed)
            c == left_ribbon.capacity
            m == IF n < c THEN n ELSE c
        IN  /\ c >= 1
            /\ Len(left_ribbon.patches) = m
            /\ Len(left_ribbon.patches) <= c
            /\ \A i \in 1..m :
                  /\ left_ribbon.patches[i].digit = Pushed[n - m + i][1]
                  /\ left_ribbon.patches[i].position = Pushed[n - m + i][2]

\* more pushes than the ribbon holds: the oldest values have fallen off
C34_Witness ==
    /\ prog = "ribbon"
    /\ out.fn = "push"
    /\ left_ribbon.capacity = Capacity
    /\ Len(Pushed) = Capacity + 2
    /\ Len(left_ribbon.patches) = Capacity
    /\ Pushed[1] # Pushed[3]
    /\ left_ribbon.patches[Capacity].digit = Pushed[Len(Pushed)][1]

(***************************************************************************)
(* Quit on the gesture path.                                               *)
(***************************************************************************)
\* number of Quit events in a sequence of gesture events
Quits(events) == Cardinality({ i \in 1..Len(events) : events[i] = GQuit })

\* the source forwards at most one Quit, as the last event it ever sends;
\* the frame loop applies only events sent before it, in order, and never
\* applies the Quit itself
C35_Inv ==
    prog = "run" =>
        /\ Quits(gsent) <= 1
        /\ Quits(gsent) = 1 =>
              (gsent[Len(gsent)] = GQuit /\ gsrc = "done" /\ sim_ch = << >>)
        /\ Quits(handled) = 0
        /\ Len(handled) <= Len(gsent)
        /\ handled = SubSeq(gsent, 1, Len(handled))
        /\ (gsrc = "run" /\ sim_ch = << >> /\ SenderGone)
              => ENABLED GestureSourceEnd
        /\ (gsrc = "run" /\ sim_ch # << >>) => ENABLED GestureSourceStep

\* the source at KeyDown(Quit) with the receiver alive: one Quit is sent and
\* the source is done, whatever inputs follow; with the receiver gone the
\* first send ends it; a source that is done sends nothing
C35_SourceStep ==
    /\ (prog = "run" /\ gsrc = "run" /\ sim_ch # << >> /\ sim_ch' # sim_ch
        /\ sim_log' = sim_log /\ Head(sim_ch) = KeyDown("Quit"))
          => /\ gsrc' = "done"
             /\ rpc # "exit" => gsent' = Append(gsent, GQuit)
             /\ rpc = "exit" => gsent' = gsent
    /\ (prog = "run" /\ gsrc = "run" /\ gsrc' = "done")
          => \/ sim_ch # << >> /\ Head(sim_ch) = KeyDown("Quit")
             \/ sim_ch # << >> /\ rpc = "exit"
             \/ sim_ch = << >> /\ SenderGone
    /\ gsrc = "done" =>
          /\ gsrc' = "done"
          /\ gsent' = gsent
          /\ Len(gest_ch') <= Len(gest_ch)

\* the frame loop at a Quit: run returns, nothing is applied and no tick is
\* run; the same when the channel is empty and the source is gone; after
\* run has returned nothing is applied any more
C35_LoopStep ==
    /\ (prog = "run" /\ rpc = "drain" /\ gest_ch # << >>
        /\ Head(gest_ch) = GQuit /\ rpc' # rpc)
          => (rpc' = "exit" /\ handled' = handled /\ UNCHANGED appVars)
    /\ (prog = "run" /\ rpc = "drain" /\ gest_ch # << >>
        /\ Head(gest_ch) = GQuit)
          => (handled' = handled /\ UNCHANGED appVars)
    /\ (prog = "run" /\ rpc = "drain" /\ gest_ch = << >> /\ gsrc = "done"
        /\ rpc' # rpc)
          => (rpc' = "exit" /\ handled' = handled /\ UNCHANGED appVars)
    /\ (prog = "run" /\ rpc = "exit")
          => (rpc' = "exit" /\ handled' = handled /\ UNCHANGED appVars)

\* handle_gesture(Quit) called directly leaves the application as it was
C35_HandleStep ==
    HandleQuit => UNCHANGED << appVars, playerVars >>

\* C35: on KeyDown(Quit) the simulated producer forwards exactly one Quit
\* event and terminates, forwarding none of the inputs that follow; it also
\* terminates when its input channel is closed or the event receiver is
\* gone; the orchestrator's main loop ends upon the first Quit it dequeues
\* (or when the gesture channel is disconnected) without applying any event
\* queued behind it and without running that frame's tick, and applying
\* Quit through handle_gesture changes no application state.
C35_QuitOnGesturePath ==
    /\ []C35_Inv
    /\ [][C35_SourceStep /\ C35_LoopStep /\ C35_HandleStep]_vars

\* a Twist, a Quit and a Clap were typed: the source forwarded Twist and
\* one Quit and ended, the loop applied the Twist and returned at the Quit
C35_Witness ==
    /\ prog = "run"
    /\ sim_log = << KeyDown("Twist"), KeyDown("Quit"), KeyDown("Clap") >>
    /\ gsent = << Twist, GQuit >>
    /\ gsrc = "done"
    /\ handled = << Twist >>
    /\ gest_ch = << >>
    /\ rpc = "exit"

(***************************************************************************)
(* PlayState and StitchPhase.                                              *)
(***************************************************************************)
\* AppState::is_playing
is_playing == play_state = "Playing"

\* a Clap that is accepted while the ribbons separate, or an Unclap while
\* they close, starts the opposite animation from 0
C36_Step ==
    /\ (HandleClap /\ stitch.phase = "Unstitching") =>
          (stitch' = Stitching(0) /\ play_state' = "Playing")
    /\ (HandleUnclap /\ stitch.phase = "Stitching") =>
          (stitch' = Unstitching(0) /\ play_state' = "Stopped")

\* C36: in every state reachable by any interleaving of gestures and ticks
\* PlayState and StitchPhase agree: PlayState is Playing exactly when
\* StitchPhase is Stitching or Stitched, and Stopped exactly when it is
\* Unstitched or Unstitching, so is_playing() equals stitch.is_stitched();
\* a Clap during Unstitching or an Unclap during Stitching restarts the
\* opposite animation at progress 0.
C36_PlayStateMatchesStitch ==
    /\ [](AppRuns =>
             /\ play_state \in { "Playing", "Stopped" }
             /\ stitch.phase \in { "Unstitched", "Stitching", "Stitched",
                                   "Unstitching" }
             /\ (play_state = "Playing")
                   <=> stitch.phase \in { "Stitching", "Stitched" }
             /\ (play_state = "Stopped")
                   <=> stitch.phase \in { "Unstitched", "Unstitching" }
             /\ is_playing <=> is_stitched(stitch))
    /\ [][C36_Step]_vars

\* the second Clap came while the ribbons were still separating: playback
\* runs again and the closing animation is under way
C36_Witness ==
    /\ prog = "leap_spigot"
    /\ sent_log = << Play, Stop, Play >>
    /\ is_playing
    /\ stitch.phase = "Stitching"
    /\ stitch.progress > 0
    /\ stitch.progress < 3 * StitchInc

(***************************************************************************)
(* The commands the orchestrator sends to the Player.                      *)
(***************************************************************************)
\* how many commands of a type a log holds
SentOf(log, type) == Cardinality({ i \in 1..Len(log) : log[i].type = type })

\* C37: the commands the orchestrator puts on the Player control channel
\* strictly alternate Play, Stop, Play, Stop, ... starting with Play, for
\* any sequence of gestures; at any time the number of Plays sent minus the
\* number of Stops sent is 1 if PlayState is Playing and 0 if Stopped, and
\* the orchestrator never sends SetInstrument, SetTempo or Quit.
C37_CommandsAlternate ==
    prog = "leap_spigot" =>
        /\ \A i \in 1..Len(sent_log) :
              sent_log[i] = IF i % 2 = 1 THEN Play ELSE Stop
        /\ SentOf(sent_log, "Play") - SentOf(sent_log, "Stop")
              = IF play_state = "Playing" THEN 1 ELSE 0
        /\ \A i \in 1..Len(sent_log) :
              sent_log[i].type \notin { "SetInstrument", "SetTempo", "Quit" }

\* Play, Stop and Play again have been sent, between pulls and a twist
C37_Witness ==
    /\ prog = "leap_spigot"
    /\ sent_log = << Play, Stop, Play >>
    /\ play_state = "Playing"
    /\ left_pos(dual) # right_pos(dual)
    /\ dual.left.config = cfg.right_config
    /\ cfg.left_config # cfg.right_config

(***************************************************************************)
(* The Player when the main loop ends.                                     *)
(***************************************************************************)
\* C38: when the orchestrator's main loop ends (Quit gesture, window
\* closed, or gesture channel disconnected) the Player is shut down as
\* well: it eventually stops issuing note-ons and its loop terminates, even
\* if PlayState was Playing at that moment and even though the command
\* sender has been dropped.
\* (a run of the model plays MaxNotes notes; a thread that has played them
\* all counts as having kept its promise, so that the property fails only
\* on a loop the code can go round for ever)
C38_PlayerEndsWithMainLoop ==
    (prog = "run" /\ rpc = "exit")
        ~> (ppc = "done" \/ Len(note_log) >= MaxNotes)

\* the player thread of the application never returns, before or after run
\* has: nothing sends it a Quit
PlayerNeverReturns == prog = "run" => ppc # "done"

\* after run has returned a thread that was playing has a next step as long
\* as the run of the model lasts: it goes on from note to note
PlayerPlaysOn ==
    (prog = "run" /\ rpc = "exit" /\ playing /\ Len(note_log) < MaxNotes)
        => ENABLED NextThread

(***************************************************************************)
(* Positions of the notes over a session.                                  *)
(***************************************************************************)
\* C39: the k-th NoteEvent the Player emits over the whole session (k >= 1)
\* carries left_pos = right_pos = k: the Player's two private cursors stay
\* in lock-step at the number of notes emitted, the positions reported grow
\* by one per note, and Stop/Play cycles neither reset nor skip positions.
C39_NotePositions ==
    PlayerRuns =>
        /\ left_pos(p_stream) = Len(note_log)
        /\ right_pos(p_stream) = Len(note_log)
        /\ \A k \in 1..Len(note_log) :
              /\ note_log[k].left_pos = k
              /\ note_log[k].right_pos = k

\* two notes with a Stop and a Play applied between them
C39_Witness ==
    /\ prog = "player"
    /\ Len(note_log) = 2
    /\ note_at[2].applied >= note_at[1].applied + 2
    /\ \E i \in (note_at[1].applied + 1)..(note_at[2].applied - 1) :
          /\ sent_log[i] = Stop
          /\ \E j \in (i + 1)..note_at[2].applied : sent_log[j] = Play
    /\ note_log[2].left_pos = 2

(***************************************************************************)
(* The tray entry and the stored snippet of one Scissors gesture.          *)
(***************************************************************************)
\* a Scissors step: the tray entry it deposits and the snippet stored under
\* the entry's name have the same number of pairs, and pair by pair the same
\* left digit and the same right digit
C40_Step ==
    tray_log' # tray_log =>
        LET entry == tray_log'[Len(tray_log')]
        IN  /\ SnippetIndex(dual'.snippets, entry.name) # 0
            /\ Len(entry.patches) = Len(SnippetNamed(dual', entry.name).pairs)
            /\ \A i \in 1..Len(entry.patches) :
                  /\ entry.patches[i][1].digit
                        = SnippetNamed(dual', entry.name).pairs[i][1]
                  /\ entry.patches[i][2].digit
                        = SnippetNamed(dual', entry.name).pairs[i][2]

\* C40: after a Scissors gesture the tray entry deposited and the snippet
\* stored under the same name describe the same data: the same number of
\* pairs and, pair by pair, the same (left digit, right digit); in every
\* reachable state (before any pull, after unequal pulls, after Twist).
C40_TrayMatchesSnippet == [][prog = "leap_spigot" => C40_Step]_vars

====
